---- MODULE Spec2Model ----
(***************************************************************************)
(* Model of the morph schema compiler: the AST (src/src/ast.rs), its       *)
(* validator, and the two code generators (src/src/bin/geno_rust_serde.rs, *)
(* the structural backend, and src/src/bin/morph_dart_mp.rs, the explicit  *)
(* backend).  Identifiers are sequences of one-character strings so that   *)
(* the casing transforms are computed character by character.              *)
(***************************************************************************)
EXTENDS Integers, Sequences, FiniteSets, TLC

VARIABLES schema, result, pc, out_dart, out_rust, ft, value, stream, unpacked,
          cli, hash_order, ast_file, backend, output, exit_code, stderr, literal,
          meta_block

vars == <<schema, result, pc, out_dart, out_rust, ft, value, stream, unpacked,
          cli, hash_order, ast_file, backend, output, exit_code, stderr, literal,
          meta_block>>

(***************************************************************************)
(* Bounds of the model.                                                    *)
(***************************************************************************)
\* Validator inputs: declarations + members + type constructors wrapped
\* around a field's base type, summed over the schema.
MaxSize == 4
\* Enum generation inputs: number of variants of the enum.
MaxVariants == 5
\* Wire inputs: Array/Map constructors around a field's base type, and
\* nodes (scalars, nulls, collections, objects) of the value packed.
MaxDepth == 2
MaxNodes == 4
\* Fields of the holder struct beside the first.
MaxFields == 3
\* Declarations of a schema handed to the driver.
MaxDecls == 2
\* Entries of the meta block of a schema handed to the driver.
MaxMeta == 2

(***************************************************************************)
(* AST constructors (ast.rs).                                              *)
(***************************************************************************)
Idle == [tag |-> "Idle"]
\* The exit status of a process that has not exited
Running == -1

IntegerTypes == {"I8", "I16", "I32", "I64", "U8", "U16", "U32", "U64"}

BtInteger(it) == [tag |-> "Integer", it |-> it]
BtFloat(f) == [tag |-> "Float", it |-> f]
BtString == [tag |-> "String", it |-> "-"]
BtBool == [tag |-> "Bool", it |-> "-"]

\* Option<usize> / Option<IntegerValue>: None
NoLength == -1
NoValue == [kind |-> "None", n |-> 0]
IntegerValue(kind, n) == [kind |-> kind, n |-> n]

Builtin(bt, nullable) == [tag |-> "Builtin", bt |-> bt, nullable |-> nullable]
UserDefined(name, nullable) == [tag |-> "UserDefined", name |-> name, nullable |-> nullable]
Array(inner, length, nullable) ==
    [tag |-> "Array", inner |-> inner, length |-> length, nullable |-> nullable]
Map(key, val, nullable) == [tag |-> "Map", key |-> key, inner |-> val, nullable |-> nullable]

Member(name, x) == [name |-> name, x |-> x]
EnumDecl(ident, base_type, variants) ==
    [tag |-> "Enum", ident |-> ident, base_type |-> base_type, members |-> variants]
StructDecl(ident, fields) ==
    [tag |-> "Struct", ident |-> ident, base_type |-> "-", members |-> fields]

Schema(metadata, declarations) == [metadata |-> metadata, declarations |-> declarations]

(***************************************************************************)
(* GenoError values and Result<(), GenoError> (error.rs).                  *)
(***************************************************************************)
Ok == [tag |-> "Ok", a |-> <<>>, b |-> <<>>]
\* GenoError::Io (error.rs:50-51) and GenoError::Parse (error.rs:52-60)
IoError == [tag |-> "Io", a |-> <<>>, b |-> <<>>]
ParseError(content, location) == [tag |-> "Parse", a |-> content, b |-> location]
DuplicateType(ident) == [tag |-> "DuplicateType", a |-> ident, b |-> <<>>]
UndefinedType(name) == [tag |-> "UndefinedType", a |-> name, b |-> <<>>]
DuplicateField(ident, name) == [tag |-> "DuplicateField", a |-> ident, b |-> name]
DuplicateVariant(ident, name) == [tag |-> "DuplicateVariant", a |-> ident, b |-> name]

(***************************************************************************)
(* Schema::validate (ast.rs).                                              *)
(***************************************************************************)
\* Mutant: the walk stops at a Map instead of entering its value type.
RECURSIVE check_undefined_types_no_map(_, _)
check_undefined_types_no_map(field_type, type_names) ==
    CASE field_type.tag = "UserDefined" ->
            IF field_type.name \notin type_names
            THEN UndefinedType(field_type.name)
            ELSE Ok
      [] field_type.tag = "Array" -> check_undefined_types_no_map(field_type.inner, type_names)
      [] OTHER -> Ok

RECURSIVE check_undefined_types(_, _)
check_undefined_types(field_type, type_names) ==
    CASE field_type.tag = "UserDefined" ->
            IF field_type.name \notin type_names
            THEN UndefinedType(field_type.name)
            ELSE Ok
      [] field_type.tag = "Array" -> check_undefined_types(field_type.inner, type_names)
      [] field_type.tag = "Map" -> check_undefined_types(field_type.inner, type_names)
      [] OTHER -> Ok

\* Mutant: the member names share the set with the declaration's identifier.
RECURSIVE check_members_with_ident(_, _, _, _)
check_members_with_ident(decl, members, i, seen) ==
    IF i > Len(members) THEN Ok
    ELSE IF members[i].name \in seen \cup {decl.ident}
         THEN IF decl.tag = "Enum"
              THEN DuplicateVariant(decl.ident, members[i].name)
              ELSE DuplicateField(decl.ident, members[i].name)
         ELSE check_members_with_ident(decl, members, i + 1, seen \cup {members[i].name})

\* The inner loop over one declaration's variants or fields: the first name
\* whose insertion into the per-declaration HashSet fails.
RECURSIVE check_members(_, _, _, _)
check_members(decl, members, i, seen) ==
    IF i > Len(members) THEN Ok
    ELSE IF members[i].name \in seen
         THEN IF decl.tag = "Enum"
              THEN DuplicateVariant(decl.ident, members[i].name)
              ELSE DuplicateField(decl.ident, members[i].name)
         ELSE check_members(decl, members, i + 1, seen \cup {members[i].name})

\* Mutant: enums and structs are looked up in separate namespaces.
RECURSIVE check_duplicates_per_kind(_, _, _)
check_duplicates_per_kind(decls, i, type_names) ==
    IF i > Len(decls) THEN [res |-> Ok, type_names |-> type_names]
    ELSE IF \E k \in 1..(i - 1) : decls[k].tag = decls[i].tag /\ decls[k].ident = decls[i].ident
         THEN [res |-> DuplicateType(decls[i].ident), type_names |-> type_names]
         ELSE LET r == check_members(decls[i], decls[i].members, 1, {})
              IN IF r # Ok
                 THEN [res |-> r, type_names |-> type_names \cup {decls[i].ident}]
                 ELSE check_duplicates_per_kind(decls, i + 1, type_names \cup {decls[i].ident})

\* First loop of validate: returns [res, type_names].
RECURSIVE check_duplicates(_, _, _)
check_duplicates(decls, i, type_names) ==
    IF i > Len(decls) THEN [res |-> Ok, type_names |-> type_names]
    ELSE IF decls[i].ident \in type_names
         THEN [res |-> DuplicateType(decls[i].ident), type_names |-> type_names]
         ELSE LET r == check_members(decls[i], decls[i].members, 1, {})
              IN IF r # Ok
                 THEN [res |-> r, type_names |-> type_names \cup {decls[i].ident}]
                 ELSE check_duplicates(decls, i + 1, type_names \cup {decls[i].ident})

RECURSIVE check_fields(_, _, _)
check_fields(fields, j, type_names) ==
    IF j > Len(fields) THEN Ok
    ELSE LET r == check_undefined_types(fields[j].x, type_names)
         IN IF r # Ok THEN r ELSE check_fields(fields, j + 1, type_names)

\* Mutant: a reference is resolved against the declarations up to the
\* referring one only (a single-pass validator).
RECURSIVE check_references_backward(_, _, _)
check_references_backward(decls, i, type_names) ==
    IF i > Len(decls) THEN Ok
    ELSE IF decls[i].tag = "Struct"
         THEN LET r == check_fields(decls[i].members, 1, {decls[k].ident : k \in 1..i})
              IN IF r # Ok THEN r ELSE check_references_backward(decls, i + 1, type_names)
         ELSE check_references_backward(decls, i + 1, type_names)

\* Second loop of validate, over the struct declarations only.
RECURSIVE check_references(_, _, _)
check_references(decls, i, type_names) ==
    IF i > Len(decls) THEN Ok
    ELSE IF decls[i].tag = "Struct"
         THEN LET r == check_fields(decls[i].members, 1, type_names)
              IN IF r # Ok THEN r ELSE check_references(decls, i + 1, type_names)
         ELSE check_references(decls, i + 1, type_names)

\* Mutant: one pass over the declarations, each struct's references being
\* checked right after its own duplicate checks.
RECURSIVE validate_one_pass(_, _, _)
validate_one_pass(decls, i, type_names) ==
    IF i > Len(decls) THEN Ok
    ELSE LET dup == check_duplicates(<<decls[i]>>, 1, type_names).res
             ref == IF decls[i].tag = "Struct"
                    THEN check_fields(decls[i].members, 1,
                                      {decls[k].ident : k \in 1..Len(decls)})
                    ELSE Ok
         IN IF dup # Ok THEN dup
            ELSE IF ref # Ok THEN ref
            ELSE validate_one_pass(decls, i + 1, type_names \cup {decls[i].ident})

validate_interleaved(s) == validate_one_pass(s.declarations, 1, {})

validate(s) ==
    LET first == check_duplicates(s.declarations, 1, {})
    IN IF first.res # Ok THEN first.res
       ELSE check_references(s.declarations, 1, first.type_names)

(***************************************************************************)
(* Validator inputs: every schema of at most MaxSize nodes over small      *)
(* pools of names.                                                         *)
(***************************************************************************)
TypeIdents == {<<"A">>, <<"B">>}
RefNames == {<<"A">>, <<"B">>, <<"C">>}
MemberNames == {<<"x">>, <<"A">>}

BaseTypesV ==
    {Builtin(BtString, FALSE)} \cup {UserDefined(n, nl) : n \in RefNames, nl \in BOOLEAN}

\* Field types with exactly w Array/Map constructors around a base type.
RECURSIVE FieldTypesX(_)
FieldTypesX(w) ==
    IF w = 0 THEN BaseTypesV
    ELSE LET inner == FieldTypesX(w - 1)
         IN {Array(t, NoLength, nl) : t \in inner, nl \in BOOLEAN}
            \cup {Map(BtString, t, nl) : t \in inner, nl \in BOOLEAN}

\* Field types of every weight the bound admits, computed once.
FieldTypesByWeight == [w \in 0..MaxSize |-> FieldTypesX(w)]

RECURSIVE FieldTypeWeight(_)
FieldTypeWeight(t) ==
    IF t.tag \in {"Array", "Map"} THEN 1 + FieldTypeWeight(t.inner) ELSE 0

RECURSIVE MembersWeight(_, _)
MembersWeight(d, j) ==
    IF j > Len(d.members) THEN 0
    ELSE 1 + (IF d.tag = "Struct" THEN FieldTypeWeight(d.members[j].x) ELSE 0)
           + MembersWeight(d, j + 1)

RECURSIVE SchemaWeight(_, _)
SchemaWeight(decls, i) ==
    IF i > Len(decls) THEN 0
    ELSE 1 + MembersWeight(decls[i], 1) + SchemaWeight(decls, i + 1)

(***************************************************************************)
(* Specification of the builder and validator: GenoAstBuilder::build       *)
(* builds one declaration after the other, member by member, and hands the *)
(* finished schema to validate (lib.rs:55-79).                             *)
(***************************************************************************)
InitValidate ==
    /\ schema = Schema(<<>>, <<>>)
    /\ result = Idle
    /\ pc = "building"
    /\ out_dart = Idle /\ out_rust = Idle
    /\ cli = Idle /\ hash_order = <<>> /\ ast_file = Idle /\ backend = Idle
    /\ output = Idle /\ exit_code = Running /\ stderr = Idle
    /\ literal = <<>> /\ meta_block = <<>>
    /\ ft = Idle /\ value = Idle /\ stream = <<>> /\ unpacked = Idle

Room == MaxSize - SchemaWeight(schema.declarations, 1)

\* build_enum_decl / build_struct_decl: a declaration is begun with its
\* identifier and an empty member vector (lib.rs:155-168, 194-198).
BuildDecl ==
    /\ pc = "building"
    /\ Room >= 1
    /\ \E i \in TypeIdents :
         \E d \in {StructDecl(i, <<>>), EnumDecl(i, "I32", <<>>)} :
            schema' = Schema(schema.metadata, Append(schema.declarations, d))
    /\ UNCHANGED <<result, pc, out_dart, out_rust, ft, value, stream, unpacked,
                 cli, hash_order, ast_file, backend, output, exit_code, stderr,
                 literal, meta_block>>

\* variants.push(..) / fields.push(..) on the declaration being built
\* (lib.rs:170-179, 200-208).
BuildMember ==
    /\ pc = "building"
    /\ Room >= 1
    /\ Len(schema.declarations) >= 1
    /\ LET n == Len(schema.declarations)
           d == schema.declarations[n]
       IN \E name \in MemberNames :
            \E x \in IF d.tag = "Enum" THEN {NoValue}
                     ELSE UNION {FieldTypesByWeight[w] : w \in 0..(Room - 1)} :
               schema' = Schema(schema.metadata,
                                [schema.declarations EXCEPT
                                    ![n].members = Append(d.members, Member(name, x))])
    /\ UNCHANGED <<result, pc, out_dart, out_rust, ft, value, stream, unpacked,
                 cli, hash_order, ast_file, backend, output, exit_code, stderr,
                 literal, meta_block>>

\* schema.validate()
Validate ==
    /\ pc = "building"
    /\ result' = validate(schema)
    /\ pc' = "validated"
    /\ UNCHANGED <<schema, out_dart, out_rust, ft, value, stream, unpacked,
                 cli, hash_order, ast_file, backend, output, exit_code, stderr,
                 literal, meta_block>>

NextValidate == BuildDecl \/ BuildMember \/ Validate

SpecValidate == InitValidate /\ [][NextValidate]_vars

(***************************************************************************)
(* Identifier casing (morph_dart_mp.rs:492-536, geno_rust_serde.rs:189-220).*)
(* char::to_uppercase / to_lowercase / is_uppercase on ASCII letters.      *)
(***************************************************************************)
LowerChars == <<"a", "b", "c", "d", "e", "f", "g", "h", "i", "j", "k", "l", "m",
                "n", "o", "p", "q", "r", "s", "t", "u", "v", "w", "x", "y", "z">>
UpperChars == <<"A", "B", "C", "D", "E", "F", "G", "H", "I", "J", "K", "L", "M",
                "N", "O", "P", "Q", "R", "S", "T", "U", "V", "W", "X", "Y", "Z">>

is_uppercase(c) == \E i \in 1..Len(UpperChars) : UpperChars[i] = c

to_uppercase(c) ==
    IF \E i \in 1..Len(LowerChars) : LowerChars[i] = c
    THEN UpperChars[CHOOSE i \in 1..Len(LowerChars) : LowerChars[i] = c]
    ELSE c

to_lowercase(c) ==
    IF is_uppercase(c)
    THEN LowerChars[CHOOSE i \in 1..Len(UpperChars) : UpperChars[i] = c]
    ELSE c

\* str::split('_'): the segments between underscores, empty ones included.
RECURSIVE split(_, _, _)
split(s, i, cur) ==
    IF i > Len(s) THEN <<cur>>
    ELSE IF s[i] = "_" THEN <<cur>> \o split(s, i + 1, <<>>)
    ELSE split(s, i + 1, Append(cur, s[i]))

capitalize(part) ==
    IF part = <<>> THEN <<>> ELSE <<to_uppercase(part[1])>> \o Tail(part)

RECURSIVE concat_capitalized(_, _)
concat_capitalized(parts, i) ==
    IF i > Len(parts) THEN <<>>
    ELSE capitalize(parts[i]) \o concat_capitalized(parts, i + 1)

\* Mutant: the first letter is capitalized without splitting on underscores.
to_pascal_case_first_only(s) == capitalize(s)

\* morph_dart_mp.rs to_pascal_case
to_pascal_case(s) == concat_capitalized(split(s, 1, <<>>), 1)

\* geno_rust_serde.rs to_pascal_case
serde_to_pascal_case(s) == concat_capitalized(split(s, 1, <<>>), 1)

RECURSIVE lower_camel_parts(_, _)
lower_camel_parts(parts, i) ==
    IF i > Len(parts) THEN <<>>
    ELSE (IF parts[i] = <<>> THEN <<>>
          ELSE IF i = 1 THEN <<to_lowercase(parts[i][1])>> \o Tail(parts[i])
          ELSE <<to_uppercase(parts[i][1])>> \o Tail(parts[i]))
         \o lower_camel_parts(parts, i + 1)

\* Mutant: the first segment is capitalized like the others.
to_lower_camel_case_capitalizes(s) == concat_capitalized(split(s, 1, <<>>), 1)

to_lower_camel_case(s) == lower_camel_parts(split(s, 1, <<>>), 1)

RECURSIVE snake_chars(_, _)
snake_chars(s, i) ==
    IF i > Len(s) THEN <<>>
    ELSE (IF is_uppercase(s[i]) /\ i > 1 THEN <<"_">> ELSE <<>>)
         \o <<to_lowercase(s[i])>> \o snake_chars(s, i + 1)

to_snake_case(s) == snake_chars(s, 1)

(***************************************************************************)
(* Integer values.  TLC has no 64-bit integers: the 64-bit kinds are       *)
(* modelled WordBits wide, two's complement, which keeps the wrap-around   *)
(* of `as i64` and of i64 addition.                                        *)
(***************************************************************************)
WordBits == 8

RECURSIVE Pow2(_)
Pow2(n) == IF n = 0 THEN 1 ELSE 2 * Pow2(n - 1)

I64Max == Pow2(WordBits - 1) - 1
I64Min == 0 - Pow2(WordBits - 1)
U64Max == Pow2(WordBits) - 1

\* Two's-complement wrap into the i64 range.
wrap_i64(n) == ((n - I64Min) % Pow2(WordBits)) + I64Min

\* morph_dart_mp.rs integer_value_to_i64: `*n as i64`
integer_value_to_i64(v) == wrap_i64(v.n)

\* geno_rust_serde.rs integer_value_str: n.to_string()
integer_value_str(v) == v.n

integer_type_str(t) ==
    CASE t = "I8" -> "i8" [] t = "I16" -> "i16" [] t = "I32" -> "i32" [] t = "I64" -> "i64"
      [] t = "U8" -> "u8" [] t = "U16" -> "u16" [] t = "U32" -> "u32" [] t = "U64" -> "u64"

(***************************************************************************)
(* Explicit backend (morph_dart_mp.rs).  The emitted Dart text is kept as  *)
(* a tree: one item per declaration, one record per emitted statement.     *)
(***************************************************************************)
Panic == [tag |-> "Panic"]

\* The loop of generate_enum over the variants.  overflow_checks tells a
\* build with overflow checks (i64 addition panics) from one without (it
\* wraps).  Returns the emitted (name, value) lines and whether it panicked.
RECURSIVE dart_variants(_, _, _, _)
dart_variants(variants, i, next_value, overflow_checks) ==
    IF i > Len(variants) THEN [panic |-> FALSE, lines |-> <<>>]
    ELSE LET explicit == variants[i].x
             val == IF explicit # NoValue THEN integer_value_to_i64(explicit) ELSE next_value
             line == [name |-> to_lower_camel_case(variants[i].name), value |-> val]
         IN IF val + 1 > I64Max /\ overflow_checks
            THEN [panic |-> TRUE, lines |-> <<>>]
            ELSE LET rest == dart_variants(variants, i + 1, wrap_i64(val + 1), overflow_checks)
                 IN [panic |-> rest.panic, lines |-> <<line>> \o rest.lines]

dart_generate_enum(ident, base_type, variants, overflow_checks) ==
    LET vs == dart_variants(variants, 1, 0, overflow_checks)
    IN [kind |-> "enum", panic |-> vs.panic, name |-> to_pascal_case(ident),
        variants |-> vs.lines]

builtin_pack_method(bt) ==
    CASE bt.tag = "Integer" -> "packInt"
      [] bt.tag = "Float" -> "packDouble"
      [] bt.tag = "String" -> "packString"
      [] bt.tag = "Bool" -> "packBool"

builtin_unpack_method(bt) ==
    CASE bt.tag = "Integer" -> "unpackInt"
      [] bt.tag = "Float" -> "unpackDouble"
      [] bt.tag = "String" -> "unpackString"
      [] bt.tag = "Bool" -> "unpackBool"

builtin_type_str(bt) ==
    CASE bt.tag = "Integer" -> "int"
      [] bt.tag = "Float" -> "double"
      [] bt.tag = "String" -> "String"
      [] bt.tag = "Bool" -> "bool"

is_nullable(t) == t.nullable

\* Dart type text: [base, args, q] stands for base<args>?
RECURSIVE field_type_str(_)
field_type_str(t) ==
    CASE t.tag = "Builtin" -> [base |-> builtin_type_str(t.bt), args |-> <<>>, q |-> t.nullable]
      [] t.tag = "UserDefined" ->
            [base |-> to_pascal_case(t.name), args |-> <<>>, q |-> t.nullable]
      [] t.tag = "Array" ->
            [base |-> "List", args |-> <<field_type_str(t.inner)>>, q |-> t.nullable]
      [] t.tag = "Map" ->
            [base |-> "Map",
             args |-> <<[base |-> builtin_type_str(t.key), args |-> <<>>, q |-> FALSE],
                        field_type_str(t.inner)>>,
             q |-> t.nullable]

\* Emitted Dart expressions: a variable, or `var.key` / `var.value` of the
\* map entry a loop variable holds.
Var(name) == [var |-> name, sel |-> "-"]
EntryKey(name) == [var |-> name, sel |-> "key"]
EntryValue(name) == [var |-> name, sel |-> "value"]

DigitChars == <<"0", "1", "2", "3", "4", "5", "6", "7", "8", "9">>
\* format!("e{depth}")
LoopVar(depth) == <<"e", DigitChars[depth + 1]>>

\* Emitted pack statements.
SPack(method, expr) == [op |-> "pack", method |-> method, expr |-> expr]
SPackNull == [op |-> "packNull"]
SPackBoolTrue == [op |-> "packBoolTrue"]
SCallPack(expr) == [op |-> "callPack", expr |-> expr]
SPackListLength(expr) == [op |-> "packListLength", expr |-> expr]
SPackMapLength(expr) == [op |-> "packMapLength", expr |-> expr]
SIfNotNull(expr, then, else) ==
    [op |-> "ifNotNull", expr |-> expr, then |-> then, else |-> else]
SForIn(var, expr, entries, body) ==
    [op |-> "forIn", var |-> var, expr |-> expr, entries |-> entries, body |-> body]

\* Mutant: a present nullable enum is written with the presence marker too.
RECURSIVE generate_pack_field_marks_enums(_, _, _, _)
generate_pack_field_marks_enums(expr, t, enum_names, depth) ==
    CASE t.tag = "Builtin" ->
            LET method == builtin_pack_method(t.bt)
            IN IF t.nullable
               THEN <<SIfNotNull(expr, <<SPack(method, expr)>>, <<SPackNull>>)>>
               ELSE <<SPack(method, expr)>>
      [] t.tag = "UserDefined" ->
            IF t.nullable
               THEN <<SIfNotNull(expr,
                                 <<SPackBoolTrue>> \o <<SCallPack(expr)>>,
                                 <<SPackNull>>)>>
               ELSE <<SCallPack(expr)>>
      [] t.tag = "Array" ->
            LET var == LoopVar(depth)
                body == generate_pack_field_marks_enums(Var(var), t.inner, enum_names, depth + 1)
            IN IF t.nullable
               THEN <<SIfNotNull(expr,
                                 <<SPackBoolTrue, SPackListLength(expr),
                                   SForIn(var, expr, FALSE, body)>>,
                                 <<SPackNull>>)>>
               ELSE <<SPackListLength(expr), SForIn(var, expr, FALSE, body)>>
      [] t.tag = "Map" ->
            LET var == LoopVar(depth)
                key_method == builtin_pack_method(t.key)
                body == <<SPack(key_method, EntryKey(var))>>
                        \o generate_pack_field_marks_enums(EntryValue(var), t.inner, enum_names, depth + 1)
            IN IF t.nullable
               THEN <<SIfNotNull(expr,
                                 <<SPackBoolTrue, SPackMapLength(expr),
                                   SForIn(var, expr, TRUE, body)>>,
                                 <<SPackNull>>)>>
               ELSE <<SPackMapLength(expr), SForIn(var, expr, TRUE, body)>>

\* generate_pack_field: the statements emitted for one field, array element
\* or map value.
RECURSIVE generate_pack_field(_, _, _, _)
generate_pack_field(expr, t, enum_names, depth) ==
    CASE t.tag = "Builtin" ->
            LET method == builtin_pack_method(t.bt)
            IN IF t.nullable
               THEN <<SIfNotNull(expr, <<SPack(method, expr)>>, <<SPackNull>>)>>
               ELSE <<SPack(method, expr)>>
      [] t.tag = "UserDefined" ->
            LET is_enum == t.name \in enum_names
            IN IF t.nullable
               THEN <<SIfNotNull(expr,
                                 (IF ~is_enum THEN <<SPackBoolTrue>> ELSE <<>>)
                                    \o <<SCallPack(expr)>>,
                                 <<SPackNull>>)>>
               ELSE <<SCallPack(expr)>>
      [] t.tag = "Array" ->
            LET var == LoopVar(depth)
                body == generate_pack_field(Var(var), t.inner, enum_names, depth + 1)
            IN IF t.nullable
               THEN <<SIfNotNull(expr,
                                 <<SPackBoolTrue, SPackListLength(expr),
                                   SForIn(var, expr, FALSE, body)>>,
                                 <<SPackNull>>)>>
               ELSE <<SPackListLength(expr), SForIn(var, expr, FALSE, body)>>
      [] t.tag = "Map" ->
            LET var == LoopVar(depth)
                key_method == builtin_pack_method(t.key)
                body == <<SPack(key_method, EntryKey(var))>>
                        \o generate_pack_field(EntryValue(var), t.inner, enum_names, depth + 1)
            IN IF t.nullable
               THEN <<SIfNotNull(expr,
                                 <<SPackBoolTrue, SPackMapLength(expr),
                                   SForIn(var, expr, TRUE, body)>>,
                                 <<SPackNull>>)>>
               ELSE <<SPackMapLength(expr), SForIn(var, expr, TRUE, body)>>

\* Emitted unpack expressions.
EUnpack(method, bang) == [op |-> "unpack", method |-> method, bang |-> bang]
ECallUnpack(cls, nullable) == [op |-> "callUnpack", cls |-> cls, nullable |-> nullable]
EListGenerate(inner) == [op |-> "listGenerate", inner |-> inner]
EMapFromEntries(key_method, inner) ==
    [op |-> "mapFromEntries", key_method |-> key_method, inner |-> inner]
\* u.unpackBool() == null ? null : base
EIfPresent(base) == [op |-> "ifPresent", base |-> base]

\* Mutant: the elements of a nullable array are read as nullable too.
RECURSIVE generate_unpack_expr_propagates(_, _)
generate_unpack_expr_propagates(t, enum_names) ==
    CASE t.tag = "Builtin" -> EUnpack(builtin_unpack_method(t.bt), ~t.nullable)
      [] t.tag = "UserDefined" -> ECallUnpack(to_pascal_case(t.name), t.nullable)
      [] t.tag = "Array" ->
            LET inner == IF t.nullable THEN [t.inner EXCEPT !.nullable = TRUE] ELSE t.inner
                base == EListGenerate(generate_unpack_expr_propagates(inner, enum_names))
            IN IF t.nullable THEN EIfPresent(base) ELSE base
      [] t.tag = "Map" ->
            LET base == EMapFromEntries(builtin_unpack_method(t.key),
                                        generate_unpack_expr_propagates(t.inner, enum_names))
            IN IF t.nullable THEN EIfPresent(base) ELSE base

RECURSIVE generate_unpack_expr(_, _)
generate_unpack_expr(t, enum_names) ==
    CASE t.tag = "Builtin" -> EUnpack(builtin_unpack_method(t.bt), ~t.nullable)
      [] t.tag = "UserDefined" -> ECallUnpack(to_pascal_case(t.name), t.nullable)
      [] t.tag = "Array" ->
            LET base == EListGenerate(generate_unpack_expr(t.inner, enum_names))
            IN IF t.nullable THEN EIfPresent(base) ELSE base
      [] t.tag = "Map" ->
            LET base == EMapFromEntries(builtin_unpack_method(t.key),
                                        generate_unpack_expr(t.inner, enum_names))
            IN IF t.nullable THEN EIfPresent(base) ELSE base

dart_generate_struct(ident, fields, enum_names) ==
    [kind |-> "class",
     panic |-> FALSE,
     name |-> to_pascal_case(ident),
     fields |-> [j \in 1..Len(fields) |->
                    [name |-> to_lower_camel_case(fields[j].name),
                     type |-> field_type_str(fields[j].x),
                     required |-> ~is_nullable(fields[j].x)]],
     pack |-> [j \in 1..Len(fields) |->
                  generate_pack_field(Var(to_lower_camel_case(fields[j].name)),
                                      fields[j].x, enum_names, 0)],
     unpack |-> [j \in 1..Len(fields) |->
                    [name |-> to_lower_camel_case(fields[j].name),
                     expr |-> generate_unpack_expr(fields[j].x, enum_names)]]]

\* morph_dart_mp.rs generate: one item per declaration, in order.
dart_generate(s, overflow_checks) ==
    LET decls == s.declarations
        enum_names == {decls[i].ident : i \in {k \in 1..Len(decls) : decls[k].tag = "Enum"}}
        items == [i \in 1..Len(decls) |->
                    IF decls[i].tag = "Enum"
                    THEN dart_generate_enum(decls[i].ident, decls[i].base_type,
                                            decls[i].members, overflow_checks)
                    ELSE dart_generate_struct(decls[i].ident, decls[i].members, enum_names)]
    IN IF \E i \in 1..Len(decls) : items[i].panic
       THEN Panic
       ELSE [tag |-> "Text", items |-> items]

(***************************************************************************)
(* Meaning of the emitted Dart code.  Values of the generated program:     *)
(* null, scalars, lists, maps (entries in insertion order), enum values    *)
(* (class and position in `values`) and objects (class and field values in *)
(* declaration order).  The wire is a sequence of MessagePack items.       *)
(***************************************************************************)
VNull == [t |-> "null"]
VInt(n) == [t |-> "int", v |-> n]
VDouble(x) == [t |-> "double", v |-> x]
VStr(x) == [t |-> "str", v |-> x]
VBool(b) == [t |-> "bool", v |-> b]
VList(elems) == [t |-> "list", v |-> elems]
VEntry(k, v) == [key |-> k, value |-> v]
VMap(entries) == [t |-> "map", v |-> entries]
VEnum(cls, index) == [t |-> "enum", cls |-> cls, v |-> index]
VObj(cls, fields) == [t |-> "obj", cls |-> cls, v |-> fields]

TNil == [t |-> "null"]
TArray(n) == [t |-> "array", v |-> n]
TMap(n) == [t |-> "maplen", v |-> n]

\* The emitted class or enum of a given name.
ClassOf(classes, cls) == classes[CHOOSE i \in 1..Len(classes) : classes[i].name = cls]

\* Packer.packInt / packDouble / packString / packBool: the item of a
\* scalar; each writes nil for a null argument.
pack_scalar(method, v) ==
    IF v = VNull THEN TNil
    ELSE [t |-> CASE method = "packInt" -> "int"
                  [] method = "packDouble" -> "double"
                  [] method = "packString" -> "str"
                  [] method = "packBool" -> "bool",
          v |-> v.v]

eval_expr(expr, env) ==
    CASE expr.sel = "key" -> env[expr.var].key
      [] expr.sel = "value" -> env[expr.var].value
      [] OTHER -> env[expr.var]

RECURSIVE exec_stmts(_, _, _, _)
RECURSIVE exec_for(_, _, _, _, _)
RECURSIVE call_pack(_, _)

\* One emitted pack statement, run with the variables of env: the items it
\* appends to the packer.
exec_stmt(st, env, classes) ==
    CASE st.op = "pack" -> <<pack_scalar(st.method, eval_expr(st.expr, env))>>
      [] st.op = "packNull" -> <<TNil>>
      [] st.op = "packBoolTrue" -> <<pack_scalar("packBool", VBool(TRUE))>>
      [] st.op = "callPack" -> call_pack(eval_expr(st.expr, env), classes)
      [] st.op = "packListLength" -> <<TArray(Len(eval_expr(st.expr, env).v))>>
      [] st.op = "packMapLength" -> <<TMap(Len(eval_expr(st.expr, env).v))>>
      [] st.op = "ifNotNull" ->
            IF eval_expr(st.expr, env) # VNull
            THEN exec_stmts(st.then, 1, env, classes)
            ELSE exec_stmts(st.else, 1, env, classes)
      [] st.op = "forIn" -> exec_for(st, eval_expr(st.expr, env).v, 1, env, classes)

exec_stmts(stmts, i, env, classes) ==
    IF i > Len(stmts) THEN <<>>
    ELSE exec_stmt(stmts[i], env, classes) \o exec_stmts(stmts, i + 1, env, classes)

\* for (final var in list) / for (final var in map.entries)
exec_for(st, elems, k, env, classes) ==
    IF k > Len(elems) THEN <<>>
    ELSE exec_stmts(st.body, 1, (st.var :> elems[k]) @@ env, classes)
         \o exec_for(st, elems, k + 1, env, classes)

\* The emitted _pack of an enum (p.packInt(value)) and of a class (the pack
\* statements of its fields, in order, over the object's fields).
call_pack(v, classes) ==
    LET c == ClassOf(classes, v.cls)
    IN IF c.kind = "enum"
       THEN <<pack_scalar("packInt", VInt(c.variants[v.v].value))>>
       ELSE LET env == [n \in {c.fields[j].name : j \in 1..Len(c.fields)} |->
                          v.v[CHOOSE j \in 1..Len(c.fields) : c.fields[j].name = n]]
                flat[j \in 0..Len(c.pack)] ==
                    IF j = 0 THEN <<>>
                    ELSE flat[j - 1] \o exec_stmts(c.pack[j], 1, env, classes)
            IN flat[Len(c.pack)]

\* toBytes: p = Packer(); _pack(p); p.takeBytes()
to_bytes(v, classes) == call_pack(v, classes)

\* Result of reading: the value and the items left, or a thrown error.
Read(v, rest) == [ok |-> TRUE, val |-> v, rest |-> rest]
Thrown == [ok |-> FALSE, val |-> VNull, rest |-> <<>>]

\* Unpacker.unpackInt / unpackDouble / unpackString / unpackBool: null for a
\* nil item, the value for an item of the kind asked for; throws on any
\* other item and past the end of the input.
unpack_scalar(method, items) ==
    IF items = <<>> THEN Thrown
    ELSE IF Head(items) = TNil THEN Read(VNull, Tail(items))
    ELSE IF Head(items).t = (CASE method = "unpackInt" -> "int"
                               [] method = "unpackDouble" -> "double"
                               [] method = "unpackString" -> "str"
                               [] method = "unpackBool" -> "bool")
         THEN Read(Head(items), Tail(items))
    ELSE Thrown

\* `u.unpackX()!`
unpack_scalar_bang(method, items) ==
    LET r == unpack_scalar(method, items)
    IN IF r.ok /\ r.val = VNull THEN Thrown ELSE r

\* Unpacker.unpackListLength / unpackMapLength: 0 for a nil item.
unpack_length(kind, items) ==
    IF items = <<>> THEN Thrown
    ELSE IF Head(items) = TNil THEN Read(0, Tail(items))
    ELSE IF Head(items).t = kind THEN Read(Head(items).v, Tail(items))
    ELSE Thrown

\* Map.fromEntries: a later entry of an existing key replaces its value.
RECURSIVE map_from_entries(_, _, _)
map_from_entries(entries, k, acc) ==
    IF k > Len(entries) THEN acc
    ELSE LET e == entries[k]
             at == {j \in 1..Len(acc) : acc[j].key = e.key}
         IN map_from_entries(entries, k + 1,
                IF at = {} THEN Append(acc, e)
                ELSE [acc EXCEPT ![CHOOSE j \in at : TRUE].value = e.value])

\* The emitted _unpack of an enum:
\*   values.firstWhere((e) => e.value == u.unpackInt()!)
\* The test runs for one element after the other, from element k on, and
\* each run of it reads the next item.
RECURSIVE enum_unpack(_, _, _)
enum_unpack(c, k, items) ==
    IF k > Len(c.variants) THEN Thrown
    ELSE LET r == unpack_scalar_bang("unpackInt", items)
         IN IF ~r.ok THEN Thrown
            ELSE IF c.variants[k].value = r.val.v THEN Read(VEnum(c.name, k), r.rest)
            ELSE enum_unpack(c, k + 1, r.rest)

\* The emitted _unpackNullable of an enum:
\*   final v = u.unpackInt(); v == null ? null : values.firstWhere(..== v)
enum_unpack_nullable(c, items) ==
    LET r == unpack_scalar("unpackInt", items)
        hits == {j \in 1..Len(c.variants) : c.variants[j].value = r.val.v}
    IN IF ~r.ok THEN Thrown
       ELSE IF r.val = VNull THEN r
       ELSE IF hits = {} THEN Thrown
       ELSE Read(VEnum(c.name, CHOOSE j \in hits : \A h \in hits : j <= h), r.rest)

RECURSIVE eval_unpack(_, _, _)
RECURSIVE unpack_elements(_, _, _, _, _)
RECURSIVE unpack_entries(_, _, _, _, _)
RECURSIVE struct_unpack(_, _, _, _, _)

\* One emitted unpack expression, evaluated on the items left.
eval_unpack(e, items, classes) ==
    CASE e.op = "unpack" ->
            IF e.bang THEN unpack_scalar_bang(e.method, items)
            ELSE unpack_scalar(e.method, items)
      [] e.op = "callUnpack" ->
            LET c == ClassOf(classes, e.cls)
                present == unpack_scalar("unpackBool", items)
            IN IF c.kind = "enum"
               THEN IF e.nullable THEN enum_unpack_nullable(c, items)
                    ELSE enum_unpack(c, 1, items)
               ELSE IF ~e.nullable THEN struct_unpack(c, 1, <<>>, items, classes)
               \* _unpackNullable: if (u.unpackBool() == null) return null;
               ELSE IF ~present.ok THEN Thrown
               ELSE IF present.val = VNull THEN present
               ELSE struct_unpack(c, 1, <<>>, present.rest, classes)
      [] e.op = "listGenerate" ->
            LET n == unpack_length("array", items)
            IN IF ~n.ok THEN Thrown
               ELSE unpack_elements(e.inner, n.val, <<>>, n.rest, classes)
      [] e.op = "mapFromEntries" ->
            LET n == unpack_length("maplen", items)
            IN IF ~n.ok THEN Thrown
               ELSE unpack_entries(e, n.val, <<>>, n.rest, classes)
      [] e.op = "ifPresent" ->
            LET present == unpack_scalar("unpackBool", items)
            IN IF ~present.ok THEN Thrown
               ELSE IF present.val = VNull THEN present
               ELSE eval_unpack(e.base, present.rest, classes)

\* List.generate(n, (_) => inner)
unpack_elements(inner, n, acc, items, classes) ==
    IF Len(acc) = n THEN Read(VList(acc), items)
    ELSE LET r == eval_unpack(inner, items, classes)
         IN IF ~r.ok THEN Thrown
            ELSE unpack_elements(inner, n, Append(acc, r.val), r.rest, classes)

\* Map.fromEntries(List.generate(n, (_) => MapEntry(u.key()!, inner)))
unpack_entries(e, n, acc, items, classes) ==
    IF Len(acc) = n THEN Read(VMap(map_from_entries(acc, 1, <<>>)), items)
    ELSE LET k == unpack_scalar_bang(e.key_method, items)
             r == eval_unpack(e.inner, k.rest, classes)
         IN IF ~k.ok THEN Thrown
            ELSE IF ~r.ok THEN Thrown
            ELSE unpack_entries(e, n, Append(acc, VEntry(k.val, r.val)), r.rest, classes)

\* The emitted _unpack of a class: the fields are read in order, from field
\* j on, then the object is constructed.
struct_unpack(c, j, acc, items, classes) ==
    IF j > Len(c.unpack) THEN Read(VObj(c.name, acc), items)
    ELSE LET r == eval_unpack(c.unpack[j].expr, items, classes)
         IN IF ~r.ok THEN Thrown
            ELSE struct_unpack(c, j + 1, Append(acc, r.val), r.rest, classes)

\* fromBytes: _unpack(Unpacker(bytes))
from_bytes(cls, items, classes) ==
    LET c == ClassOf(classes, cls)
    IN IF c.kind = "enum" THEN enum_unpack(c, 1, items)
       ELSE struct_unpack(c, 1, <<>>, items, classes)

(***************************************************************************)
(* Structural backend (geno_rust_serde.rs).                                *)
(***************************************************************************)
\* No #[serde(rename = ..)] line
NoRename == <<>>

serde_builtin_type_str(bt) ==
    CASE bt.tag = "Integer" -> integer_type_str(bt.it)
      [] bt.tag = "Float" -> IF bt.it = "F32" THEN "f32" ELSE "f64"
      [] bt.tag = "String" -> "String"
      [] bt.tag = "Bool" -> "bool"

\* Rust type text: [base, args, len, opt] stands for Option<base<args>> or
\* Option<[args; len]>.
RECURSIVE serde_field_type_str(_)
serde_field_type_str(t) ==
    CASE t.tag = "Builtin" ->
            [base |-> serde_builtin_type_str(t.bt), args |-> <<>>, len |-> NoLength,
             opt |-> t.nullable]
      [] t.tag = "UserDefined" ->
            [base |-> serde_to_pascal_case(t.name), args |-> <<>>, len |-> NoLength,
             opt |-> t.nullable]
      [] t.tag = "Array" ->
            [base |-> IF t.length # NoLength THEN "array" ELSE "Vec",
             args |-> <<serde_field_type_str(t.inner)>>, len |-> t.length,
             opt |-> t.nullable]
      [] t.tag = "Map" ->
            [base |-> "HashMap",
             args |-> <<[base |-> serde_builtin_type_str(t.key), args |-> <<>>,
                         len |-> NoLength, opt |-> FALSE],
                        serde_field_type_str(t.inner)>>,
             len |-> NoLength, opt |-> t.nullable]

serde_generate_enum(ident, base_type, variants) ==
    [kind |-> "enum",
     repr |-> integer_type_str(base_type),
     name |-> serde_to_pascal_case(ident),
     variants |-> [i \in 1..Len(variants) |->
                     LET rust_variant == serde_to_pascal_case(variants[i].name)
                     IN [rename |-> IF rust_variant # variants[i].name
                                    THEN variants[i].name ELSE NoRename,
                         name |-> rust_variant,
                         explicit |-> variants[i].x # NoValue,
                         value |-> IF variants[i].x # NoValue
                                   THEN integer_value_str(variants[i].x) ELSE 0]]]

\* Mutant: the rename line is emitted for every field.
serde_generate_struct_always_rename(ident, fields) ==
    [kind |-> "struct",
     name |-> serde_to_pascal_case(ident),
     fields |-> [j \in 1..Len(fields) |->
                    [rename |-> fields[j].name,
                     name |-> to_snake_case(fields[j].name),
                     type |-> serde_field_type_str(fields[j].x)]]]

serde_generate_struct(ident, fields) ==
    [kind |-> "struct",
     name |-> serde_to_pascal_case(ident),
     fields |-> [j \in 1..Len(fields) |->
                    LET rust_field == to_snake_case(fields[j].name)
                    IN [rename |-> IF rust_field # fields[j].name
                                   THEN fields[j].name ELSE NoRename,
                        name |-> rust_field,
                        type |-> serde_field_type_str(fields[j].x)]]]

\* Mutant: the text opens with a header naming the metadata keys.
serde_generate_with_meta(s) ==
    [tag |-> "Text",
     header |-> DOMAIN s.metadata,
     items |-> [i \in 1..Len(s.declarations) |->
                  LET d == s.declarations[i]
                  IN IF d.tag = "Enum"
                     THEN serde_generate_enum(d.ident, d.base_type, d.members)
                     ELSE serde_generate_struct(d.ident, d.members)]]

\* geno_rust_serde.rs generate
serde_generate(s) ==
    [tag |-> "Text",
     items |-> [i \in 1..Len(s.declarations) |->
                  LET d == s.declarations[i]
                  IN IF d.tag = "Enum"
                     THEN serde_generate_enum(d.ident, d.base_type, d.members)
                     ELSE serde_generate_struct(d.ident, d.members)]]

(***************************************************************************)
(* Intermediate encoding of a Schema (rmp_serde over the serde derives of  *)
(* ast.rs): a struct and a tuple are an array of their fields, a unit      *)
(* variant is its name, any other variant is a one-entry map from its name *)
(* to its payload, None is nil, and a HashMap is a map whose entries come  *)
(* in the iteration order of the map.                                      *)
(***************************************************************************)
IStr(x) == [t |-> "str", v |-> x]
IInt(n) == [t |-> "int", v |-> n]
IBool(b) == [t |-> "bool", v |-> b]
IVariant(name) == <<TMap(1), IStr(name)>>

MetaString(x) == [tag |-> "String", v |-> x]
MetaInteger(x) == [tag |-> "Integer", v |-> x]

encode_integer_value(v) == IVariant(v.kind) \o <<IInt(v.n)>>

encode_builtin_type(bt) ==
    IF bt.tag \in {"Integer", "Float"} THEN IVariant(bt.tag) \o <<IStr(bt.it)>>
    ELSE <<IStr(bt.tag)>>

RECURSIVE encode_field_type(_)
encode_field_type(t) ==
    CASE t.tag = "Builtin" ->
            IVariant("Builtin") \o <<TArray(2)>> \o encode_builtin_type(t.bt)
                \o <<IBool(t.nullable)>>
      [] t.tag = "UserDefined" ->
            IVariant("UserDefined") \o <<TArray(2), IStr(t.name), IBool(t.nullable)>>
      [] t.tag = "Array" ->
            IVariant("Array") \o <<TArray(3)>> \o encode_field_type(t.inner)
                \o <<IF t.length = NoLength THEN TNil ELSE IInt(t.length), IBool(t.nullable)>>
      [] t.tag = "Map" ->
            IVariant("Map") \o <<TArray(3)>> \o encode_builtin_type(t.key)
                \o encode_field_type(t.inner) \o <<IBool(t.nullable)>>

\* One (name, Option<IntegerValue>) or (name, FieldType) tuple
encode_member(tag, m) ==
    <<TArray(2), IStr(m.name)>>
    \o (IF tag = "Struct" THEN encode_field_type(m.x)
        ELSE IF m.x = NoValue THEN <<TNil>> ELSE encode_integer_value(m.x))

encode_declaration(d) ==
    LET members[j \in 0..Len(d.members)] ==
            IF j = 0 THEN <<>> ELSE members[j - 1] \o encode_member(d.tag, d.members[j])
    IN IF d.tag = "Enum"
       THEN IVariant("Enum") \o <<TArray(3), IStr(d.ident), IStr(d.base_type),
                                  TArray(Len(d.members))>> \o members[Len(d.members)]
       ELSE IVariant("Struct") \o <<TArray(2), IStr(d.ident), TArray(Len(d.members))>>
                \o members[Len(d.members)]

encode_metadata_value(m) ==
    IVariant(m.tag) \o (IF m.tag = "String" THEN <<IStr(m.v)>> ELSE encode_integer_value(m.v))

\* rmp_serde::encode::write / to_vec on a Schema whose metadata map iterates
\* its keys in the given order.
encode(s, order) ==
    LET entries[k \in 0..Len(order)] ==
            IF k = 0 THEN <<>>
            ELSE entries[k - 1] \o <<IStr(order[k])>> \o encode_metadata_value(s.metadata[order[k]])
        decls[i \in 0..Len(s.declarations)] ==
            IF i = 0 THEN <<>> ELSE decls[i - 1] \o encode_declaration(s.declarations[i])
    IN <<TArray(2), TMap(Len(order))>> \o entries[Len(order)]
       \o <<TArray(Len(s.declarations))>> \o decls[Len(s.declarations)]

\* rmp_serde::from_slice: the derived Deserialize reads the items back.  A
\* read gives [ok, val, rest]; an item of the wrong kind is an error.
DecodeError == [ok |-> FALSE, val |-> Idle, rest |-> <<>>]

IsItem(items, kind) == items # <<>> /\ Head(items).t = kind

\* The name of a variant with a payload: {name: payload}
decode_variant(items) ==
    IF IsItem(items, "maplen") /\ Head(items).v = 1 /\ IsItem(Tail(items), "str")
    THEN Read(items[2].v, Tail(Tail(items)))
    ELSE DecodeError

decode_integer_value(items) ==
    LET name == decode_variant(items)
    IN IF name.ok /\ name.val \in IntegerTypes /\ IsItem(name.rest, "int")
       THEN Read(IntegerValue(name.val, Head(name.rest).v), Tail(name.rest))
       ELSE DecodeError

decode_builtin_type(items) ==
    LET name == decode_variant(items)
    IN IF IsItem(items, "str")
       THEN IF Head(items).v = "String" THEN Read(BtString, Tail(items))
            ELSE IF Head(items).v = "Bool" THEN Read(BtBool, Tail(items))
            ELSE DecodeError
       ELSE IF name.ok /\ IsItem(name.rest, "str")
       THEN IF name.val = "Integer" /\ Head(name.rest).v \in IntegerTypes
            THEN Read(BtInteger(Head(name.rest).v), Tail(name.rest))
            ELSE IF name.val = "Float" /\ Head(name.rest).v \in {"F32", "F64"}
            THEN Read(BtFloat(Head(name.rest).v), Tail(name.rest))
            ELSE DecodeError
       ELSE DecodeError

decode_bool(items) ==
    IF IsItem(items, "bool") THEN Read(Head(items).v, Tail(items)) ELSE DecodeError

\* Option<usize>
decode_length(items) ==
    IF IsItem(items, "null") THEN Read(NoLength, Tail(items))
    ELSE IF IsItem(items, "int") /\ Head(items).v >= 0 THEN Read(Head(items).v, Tail(items))
    ELSE DecodeError

IsTuple(items, n) == IsItem(items, "array") /\ Head(items).v = n

\* `let x = read?; rest(x)`: the read is made once, an error ends the decoding.
Then(read, rest(_)) ==
    CHOOSE y \in {IF x.ok THEN rest(x) ELSE DecodeError : x \in {read}} : TRUE

decode_string(items) ==
    IF IsItem(items, "str") THEN Read(Head(items).v, Tail(items)) ELSE DecodeError

RECURSIVE decode_field_type(_)
decode_field_type(items) ==
    Then(decode_variant(items), LAMBDA name :
        IF name.val \in {"Builtin", "UserDefined"} /\ IsTuple(name.rest, 2)
        THEN Then(IF name.val = "Builtin" THEN decode_builtin_type(Tail(name.rest))
                  ELSE decode_string(Tail(name.rest)), LAMBDA a :
             Then(decode_bool(a.rest), LAMBDA nl :
                IF name.val = "Builtin" THEN Read(Builtin(a.val, nl.val), nl.rest)
                ELSE Read(UserDefined(a.val, nl.val), nl.rest)))
        ELSE IF name.val = "Array" /\ IsTuple(name.rest, 3)
        THEN Then(decode_field_type(Tail(name.rest)), LAMBDA inner :
             Then(decode_length(inner.rest), LAMBDA len :
             Then(decode_bool(len.rest), LAMBDA nl :
                Read(Array(inner.val, len.val, nl.val), nl.rest))))
        ELSE IF name.val = "Map" /\ IsTuple(name.rest, 3)
        THEN Then(decode_builtin_type(Tail(name.rest)), LAMBDA key :
             Then(decode_field_type(key.rest), LAMBDA inner :
             Then(decode_bool(inner.rest), LAMBDA nl :
                Read(Map(key.val, inner.val, nl.val), nl.rest))))
        ELSE DecodeError)

\* Vec<(String, Option<IntegerValue>)> / Vec<(String, FieldType)>: n tuples
RECURSIVE decode_members(_, _, _, _)
decode_members(tag, n, acc, items) ==
    IF Len(acc) = n THEN Read(acc, items)
    ELSE IF ~IsTuple(items, 2) THEN DecodeError
    ELSE Then(decode_string(Tail(items)), LAMBDA name :
         Then(IF tag = "Struct" THEN decode_field_type(name.rest)
              ELSE IF IsItem(name.rest, "null") THEN Read(NoValue, Tail(name.rest))
              ELSE decode_integer_value(name.rest), LAMBDA x :
            decode_members(tag, n, Append(acc, Member(name.val, x.val)), x.rest)))

decode_integer_type(items) ==
    IF IsItem(items, "str") /\ Head(items).v \in IntegerTypes
    THEN Read(Head(items).v, Tail(items))
    ELSE DecodeError

decode_declaration(items) ==
    Then(decode_variant(items), LAMBDA name :
        IF name.val = "Enum" /\ IsTuple(name.rest, 3)
        THEN Then(decode_string(Tail(name.rest)), LAMBDA ident :
             Then(decode_integer_type(ident.rest), LAMBDA base_type :
                IF ~IsItem(base_type.rest, "array") THEN DecodeError
                ELSE Then(decode_members("Enum", Head(base_type.rest).v, <<>>,
                                         Tail(base_type.rest)), LAMBDA variants :
                        Read(EnumDecl(ident.val, base_type.val, variants.val),
                             variants.rest))))
        ELSE IF name.val = "Struct" /\ IsTuple(name.rest, 2)
        THEN Then(decode_string(Tail(name.rest)), LAMBDA ident :
                IF ~IsItem(ident.rest, "array") THEN DecodeError
                ELSE Then(decode_members("Struct", Head(ident.rest).v, <<>>,
                                         Tail(ident.rest)), LAMBDA fields :
                        Read(StructDecl(ident.val, fields.val), fields.rest)))
        ELSE DecodeError)

RECURSIVE decode_declarations(_, _, _)
decode_declarations(n, acc, items) ==
    IF Len(acc) = n THEN Read(acc, items)
    ELSE Then(decode_declaration(items), LAMBDA d :
            decode_declarations(n, Append(acc, d.val), d.rest))

decode_metadata_value(items) ==
    Then(decode_variant(items), LAMBDA name :
        IF name.val = "String"
        THEN Then(decode_string(name.rest), LAMBDA x : Read(MetaString(x.val), x.rest))
        ELSE IF name.val = "Integer"
        THEN Then(decode_integer_value(name.rest), LAMBDA x :
                Read(MetaInteger(x.val), x.rest))
        ELSE DecodeError)

\* HashMap<String, MetadataValue>: n entries, each inserted into the map
RECURSIVE decode_metadata(_, _, _)
decode_metadata(n, acc, items) ==
    IF n = 0 THEN Read(acc, items)
    ELSE Then(decode_string(items), LAMBDA k :
         Then(decode_metadata_value(k.rest), LAMBDA v :
            decode_metadata(n - 1, (k.val :> v.val) @@ acc, v.rest)))

decode(items) ==
    IF ~(IsTuple(items, 2) /\ IsItem(Tail(items), "maplen")) THEN DecodeError
    ELSE Then(decode_metadata(items[2].v, <<>>, Tail(Tail(items))), LAMBDA meta :
            IF ~IsItem(meta.rest, "array") THEN DecodeError
            ELSE Then(decode_declarations(Head(meta.rest).v, <<>>, Tail(meta.rest)),
                      LAMBDA decls : Read(Schema(meta.val, decls.val), decls.rest)))

(***************************************************************************)
(* Code generation: the driver hands a schema that build returned Ok to    *)
(* the backend chosen by the format (morph.rs:56-86).                      *)
(***************************************************************************)
\* morph_dart_mp.rs run/generate.  The build profile of the generator
\* (overflow checks on or off) is not fixed by the source.
GenerateDart ==
    /\ pc = "validated" /\ result = Ok
    /\ out_dart = Idle
    /\ \E overflow_checks \in BOOLEAN : out_dart' = dart_generate(schema, overflow_checks)
    /\ UNCHANGED <<schema, result, pc, out_rust, ft, value, stream, unpacked,
                 cli, hash_order, ast_file, backend, output, exit_code, stderr,
                 literal, meta_block>>

\* geno_rust_serde.rs run/generate
GenerateRust ==
    /\ pc = "validated" /\ result = Ok
    /\ out_rust = Idle
    /\ out_rust' = serde_generate(schema)
    /\ UNCHANGED <<schema, result, pc, out_dart, ft, value, stream, unpacked,
                 cli, hash_order, ast_file, backend, output, exit_code, stderr,
                 literal, meta_block>>

(***************************************************************************)
(* Specification of enum generation: one enum whose variants carry every   *)
(* combination of absent and explicit values build_integer_literal yields. *)
(***************************************************************************)
VariantNames == <<<<"a">>, <<"b">>, <<"c">>, <<"d">>, <<"e">>, <<"f">>, <<"g">>, <<"h">>>>

\* build_integer_literal: decimal literals are I64, 0x/0b literals are U64.
VariantValues ==
    {NoValue,
     IntegerValue("I64", 0), IntegerValue("I64", 1),
     IntegerValue("I64", 5), IntegerValue("I64", I64Max), IntegerValue("U64", U64Max)}

InitEnum ==
    /\ schema = Schema(<<>>, <<EnumDecl(<<"e", "n">>, "I32", <<>>)>>)
    /\ result = Idle
    /\ pc = "building"
    /\ out_dart = Idle /\ out_rust = Idle
    /\ cli = Idle /\ hash_order = <<>> /\ ast_file = Idle /\ backend = Idle
    /\ output = Idle /\ exit_code = Running /\ stderr = Idle
    /\ literal = <<>> /\ meta_block = <<>>
    /\ ft = Idle /\ value = Idle /\ stream = <<>> /\ unpacked = Idle

\* variants.push((variant_ident, variant_value)) (lib.rs:170-179)
BuildVariant ==
    /\ pc = "building"
    /\ Len(schema.declarations[1].members) < MaxVariants
    /\ \E x \in VariantValues :
         LET n == Len(schema.declarations[1].members) + 1
         IN schema' = Schema(schema.metadata,
                             [schema.declarations EXCEPT
                                 ![1].members = Append(@, Member(VariantNames[n], x))])
    /\ UNCHANGED <<result, pc, out_dart, out_rust, ft, value, stream, unpacked,
                 cli, hash_order, ast_file, backend, output, exit_code, stderr,
                 literal, meta_block>>

NextEnum == BuildVariant \/ Validate \/ GenerateDart \/ GenerateRust

SpecEnum == InitEnum /\ [][NextEnum]_vars

(***************************************************************************)
(* Specification of identifier casing in the generators: schemas whose     *)
(* identifiers mix case and underscores.                                   *)
(***************************************************************************)
CasedIdents == {<<"a", "b">>, <<"a", "_", "b">>, <<"A", "b">>}
CasedMembers == {<<"a", "b">>, <<"a", "_", "b">>, <<"a", "B">>, <<"A", "b">>, <<"_", "a">>}

BuildCasedDecl ==
    /\ pc = "building"
    /\ Room >= 1
    /\ \E i \in CasedIdents :
         \E d \in {StructDecl(i, <<>>), EnumDecl(i, "I32", <<>>)} :
            schema' = Schema(schema.metadata, Append(schema.declarations, d))
    /\ UNCHANGED <<result, pc, out_dart, out_rust, ft, value, stream, unpacked,
                 cli, hash_order, ast_file, backend, output, exit_code, stderr,
                 literal, meta_block>>

BuildCasedMember ==
    /\ pc = "building"
    /\ Room >= 1
    /\ Len(schema.declarations) >= 1
    /\ LET n == Len(schema.declarations)
           d == schema.declarations[n]
       IN \E name \in CasedMembers :
            \E x \in IF d.tag = "Enum" THEN {NoValue} ELSE {Builtin(BtString, FALSE)} :
               schema' = Schema(schema.metadata,
                                [schema.declarations EXCEPT
                                    ![n].members = Append(d.members, Member(name, x))])
    /\ UNCHANGED <<result, pc, out_dart, out_rust, ft, value, stream, unpacked,
                 cli, hash_order, ast_file, backend, output, exit_code, stderr,
                 literal, meta_block>>

NextCasing == BuildCasedDecl \/ BuildCasedMember \/ Validate \/ GenerateDart \/ GenerateRust

SpecCasing == InitValidate /\ [][NextCasing]_vars

(***************************************************************************)
(* Wire: a program built from the explicit backend's output packs a value  *)
(* with toBytes and reads it back with fromBytes.  The schema declares an  *)
(* enum, a struct with a nullable enum field, and a holder struct whose    *)
(* single field has the type under test.                                   *)
(***************************************************************************)
WireEnumIdent == <<"c", "l">>
WireStructIdent == <<"p", "t">>
WireHolderIdent == <<"h">>

WireSchema(t) ==
    Schema(<<>>,
           <<EnumDecl(WireEnumIdent, "U8",
                      <<Member(<<"r">>, NoValue), Member(<<"g">>, NoValue),
                        Member(<<"b">>, NoValue)>>),
             StructDecl(WireStructIdent,
                        <<Member(<<"x">>, Builtin(BtInteger("I32"), FALSE)),
                          Member(<<"l">>, UserDefined(WireEnumIdent, TRUE))>>),
             StructDecl(WireHolderIdent, <<Member(<<"f">>, t)>>)>>)

WireBases ==
    {Builtin(b, nl) : b \in {BtInteger("I32"), BtFloat("F64"), BtString, BtBool},
                      nl \in BOOLEAN}
    \cup {UserDefined(n, nl) : n \in {WireEnumIdent, WireStructIdent}, nl \in BOOLEAN}

WireKeys == {BtInteger("I32"), BtString}

\* Field types with at most d array / map constructors around the base.
RECURSIVE WireTypes(_)
WireTypes(d) ==
    IF d = 0 THEN WireBases
    ELSE LET inner == WireTypes(d - 1)
         IN inner
            \cup {Array(t, NoLength, nl) : t \in inner, nl \in BOOLEAN}
            \cup {Map(k, t, nl) : k \in WireKeys, t \in inner, nl \in BOOLEAN}

RECURSIVE Nodes(_)
Nodes(v) ==
    LET sum[k \in 0..Len(v.v)] ==
            IF k = 0 THEN 0
            ELSE sum[k - 1] + (IF v.t = "map" THEN 1 + Nodes(v.v[k].value)
                               ELSE Nodes(v.v[k]))
    IN IF v.t \in {"list", "map", "obj"} THEN 1 + sum[Len(v.v)] ELSE 1

\* Dart values of a builtin type (morph_dart_mp.rs builtin_type_str).
ScalarsOf(bt) ==
    CASE bt.tag = "Integer" -> {VInt(0), VInt(1)}
      [] bt.tag = "Float" -> {VDouble("1.5")}
      [] bt.tag = "String" -> {VStr("s"), VStr("t")}
      [] bt.tag = "Bool" -> {VBool(FALSE), VBool(TRUE)}

RECURSIVE ValuesOf(_, _, _, _)
RECURSIVE SeqsOf(_, _, _, _)
RECURSIVE FieldSeqs(_, _, _, _, _)
RECURSIVE EntrySeqs(_, _, _, _, _)

\* The Dart values of at most n nodes that a field of type t can hold.
ValuesOf(t, n, decls, classes) ==
    IF n < 1 THEN {}
    ELSE (IF t.nullable THEN {VNull} ELSE {})
         \cup
         CASE t.tag = "Builtin" -> ScalarsOf(t.bt)
           [] t.tag = "UserDefined" ->
                LET i == CHOOSE k \in 1..Len(decls) : decls[k].ident = t.name
                IN IF decls[i].tag = "Enum"
                   THEN {VEnum(classes[i].name, k) : k \in 1..Len(decls[i].members)}
                   ELSE {VObj(classes[i].name, fs) :
                            fs \in FieldSeqs(decls[i].members, 1, n - 1, decls, classes)}
           [] t.tag = "Array" ->
                {VList(es) : es \in SeqsOf(t.inner, n - 1, decls, classes)}
           [] t.tag = "Map" ->
                {VMap(es) : es \in EntrySeqs(t, ScalarsOf(t.key), n - 1, decls, classes)}

SeqsOf(t, n, decls, classes) ==
    {<<>>} \cup
    UNION {{<<h>> \o tl : tl \in SeqsOf(t, n - Nodes(h), decls, classes)} :
             h \in ValuesOf(t, n, decls, classes)}

FieldSeqs(members, j, n, decls, classes) ==
    IF j > Len(members) THEN {<<>>}
    ELSE UNION {{<<h>> \o tl :
                    tl \in FieldSeqs(members, j + 1, n - Nodes(h), decls, classes)} :
                  h \in ValuesOf(members[j].x, n, decls, classes)}

\* Entries of distinct keys, in every insertion order.
EntrySeqs(t, keys, n, decls, classes) ==
    {<<>>} \cup
    UNION {UNION {{<<VEntry(k, h)>> \o tl :
                      tl \in EntrySeqs(t, keys \ {k}, n - 1 - Nodes(h), decls, classes)} :
                    h \in ValuesOf(t.inner, n - 1, decls, classes)} :
             k \in keys}

InitWire ==
    /\ ft \in WireTypes(MaxDepth)
    /\ schema = WireSchema(ft)
    /\ result = Idle
    /\ pc = "building"
    /\ out_dart = Idle /\ out_rust = Idle
    /\ cli = Idle /\ hash_order = <<>> /\ ast_file = Idle /\ backend = Idle
    /\ output = Idle /\ exit_code = Running /\ stderr = Idle
    /\ literal = <<>> /\ meta_block = <<>>
    /\ value = Idle /\ stream = <<>> /\ unpacked = Idle

\* holder.toBytes() on a holder object of the generated class
Pack ==
    /\ pc = "validated"
    /\ out_dart \notin {Idle, Panic}
    /\ \E v \in ValuesOf(ft, MaxNodes, schema.declarations, out_dart.items) :
          /\ value' = VObj(to_pascal_case(WireHolderIdent), <<v>>)
          /\ stream' = to_bytes(value', out_dart.items)
    /\ pc' = "packed"
    /\ UNCHANGED <<schema, result, out_dart, out_rust, ft, unpacked,
                 cli, hash_order, ast_file, backend, output, exit_code, stderr,
                 literal, meta_block>>

\* Holder.fromBytes(bytes) on the bytes toBytes returned
Unpack ==
    /\ pc = "packed"
    /\ unpacked' = from_bytes(value.cls, stream, out_dart.items)
    /\ pc' = "unpacked"
    /\ UNCHANGED <<schema, result, out_dart, out_rust, ft, value, stream,
                 cli, hash_order, ast_file, backend, output, exit_code, stderr,
                 literal, meta_block>>

NextWire == Validate \/ GenerateDart \/ Pack \/ Unpack

SpecWire == InitWire /\ [][NextWire]_vars

(***************************************************************************)
(* Fixed-length arrays on the wire: the holder's field is an array         *)
(* declared with a length.  The emitted Dart field is a List, which holds  *)
(* any number of elements.                                                 *)
(***************************************************************************)
ArrayTypes ==
    {Array(t, n, nl) : t \in {Builtin(BtBool, FALSE), Builtin(BtInteger("I32"), TRUE)},
                       n \in {1, 2}, nl \in BOOLEAN}

InitArray ==
    /\ ft \in ArrayTypes
    /\ schema = WireSchema(ft)
    /\ result = Idle
    /\ pc = "building"
    /\ out_dart = Idle /\ out_rust = Idle
    /\ cli = Idle /\ hash_order = <<>> /\ ast_file = Idle /\ backend = Idle
    /\ output = Idle /\ exit_code = Running /\ stderr = Idle
    /\ literal = <<>> /\ meta_block = <<>>
    /\ value = Idle /\ stream = <<>> /\ unpacked = Idle

SpecArray == InitArray /\ [][NextWire]_vars

(***************************************************************************)
(* Fields: the holder struct is built field by field, then a holder object *)
(* with a value for every field is packed and read back.                   *)
(***************************************************************************)
FieldNames == <<<<"a">>, <<"b">>, <<"c">>, <<"d">>, <<"e">>>>

FieldPool ==
    {Builtin(BtInteger("I32"), FALSE), Builtin(BtString, TRUE),
     UserDefined(WireEnumIdent, FALSE), Array(Builtin(BtBool, FALSE), NoLength, TRUE)}

InitFields ==
    /\ schema = WireSchema(Builtin(BtBool, FALSE))
    /\ result = Idle
    /\ pc = "building"
    /\ out_dart = Idle /\ out_rust = Idle
    /\ cli = Idle /\ hash_order = <<>> /\ ast_file = Idle /\ backend = Idle
    /\ output = Idle /\ exit_code = Running /\ stderr = Idle
    /\ literal = <<>> /\ meta_block = <<>>
    /\ ft = Idle /\ value = Idle /\ stream = <<>> /\ unpacked = Idle

\* fields.push((field_ident, field_type)) on the holder (lib.rs:200-208)
BuildField ==
    /\ pc = "building"
    /\ LET n == Len(schema.declarations)
           k == Len(schema.declarations[n].members)
       IN /\ k <= MaxFields
          /\ \E t \in FieldPool :
               schema' = Schema(schema.metadata,
                                [schema.declarations EXCEPT
                                    ![n].members = Append(@, Member(FieldNames[k], t))])
    /\ UNCHANGED <<result, pc, out_dart, out_rust, ft, value, stream, unpacked,
                 cli, hash_order, ast_file, backend, output, exit_code, stderr,
                 literal, meta_block>>

\* holder.toBytes() on a holder object with a value in every field
PackFields ==
    /\ pc = "validated"
    /\ out_dart \notin {Idle, Panic}
    /\ LET decls == schema.declarations
       IN \E fs \in FieldSeqs(decls[Len(decls)].members, 1, MaxNodes, decls, out_dart.items) :
             /\ value' = VObj(to_pascal_case(WireHolderIdent), fs)
             /\ stream' = to_bytes(value', out_dart.items)
    /\ pc' = "packed"
    /\ UNCHANGED <<schema, result, out_dart, out_rust, ft, unpacked,
                 cli, hash_order, ast_file, backend, output, exit_code, stderr,
                 literal, meta_block>>

NextFields == BuildField \/ Validate \/ GenerateDart \/ PackFields \/ Unpack

SpecFields == InitFields /\ [][NextFields]_vars

(***************************************************************************)
(* Integer literals and array lengths in the builder: the literal's text   *)
(* is parsed digit by digit as the standard library parses it, so that a   *)
(* text can fail by its digits or by its range.                            *)
(***************************************************************************)
HexChars == <<"0", "1", "2", "3", "4", "5", "6", "7", "8", "9",
              "a", "b", "c", "d", "e", "f">>

\* char::to_digit(radix): the digit's value, or -1 when it is no digit of
\* the radix; letters count in either case.
to_digit(c, radix) ==
    IF \E i \in 1..radix : HexChars[i] = c
    THEN (CHOOSE i \in 1..radix : HexChars[i] = c) - 1
    ELSE IF \E i \in 11..radix : UpperChars[i - 10] = c
         THEN (CHOOSE i \in 11..radix : UpperChars[i - 10] = c) - 1
         ELSE -1

Parsed(n) == [kind |-> "Ok", n |-> n]
ParseIntError(kind) == [kind |-> kind, n |-> 0]

\* The digit loop of from_str_radix: the first digit that is no digit of the
\* radix, or the first step that leaves [lo, hi], ends the parse.
RECURSIVE parse_digits(_, _, _, _, _, _)
parse_digits(digits, radix, acc, negative, lo, hi) ==
    IF digits = <<>> THEN Parsed(acc)
    ELSE LET x == to_digit(Head(digits), radix)
             next == IF negative THEN acc * radix - x ELSE acc * radix + x
         IN IF x = -1 THEN ParseIntError("InvalidDigit")
            ELSE IF next > hi THEN ParseIntError("PosOverflow")
            ELSE IF next < lo THEN ParseIntError("NegOverflow")
            ELSE parse_digits(Tail(digits), radix, next, negative, lo, hi)

\* from_str_radix for a type with the range [lo, hi]; a sign is read only
\* in front of digits, and a minus sign only by a signed type.
from_str_radix(src, radix, lo, hi) ==
    IF src = <<>> THEN ParseIntError("Empty")
    ELSE IF src = <<"+">> \/ src = <<"-">> THEN ParseIntError("InvalidDigit")
    ELSE IF Head(src) = "+" THEN parse_digits(Tail(src), radix, 0, FALSE, lo, hi)
    ELSE IF Head(src) = "-" /\ lo < 0
         THEN parse_digits(Tail(src), radix, 0, TRUE, lo, hi)
    ELSE parse_digits(src, radix, 0, FALSE, lo, hi)

starts_with(s, prefix) ==
    Len(s) >= Len(prefix) /\ SubSeq(s, 1, Len(prefix)) = prefix

\* Location::from(&pair.as_span()): the literal's place in the source, here
\* the declaration and the member it belongs to.
Location(decl, member) == <<DigitChars[decl + 1], DigitChars[member + 1]>>

NumberFormat(content, location) ==
    [tag |-> "NumberFormat", a |-> content, b |-> location]
NumberRange(content, location) ==
    [tag |-> "NumberRange", a |-> content, b |-> location]

Built(x) == [ok |-> TRUE, x |-> x, error |-> Ok]
BuildFailed(error) == [ok |-> FALSE, x |-> NoValue, error |-> error]

\* build_integer_literal (lib.rs:127-147): every failure of the three
\* parses is mapped to new_number_format_error.
build_integer_literal(s, location) ==
    IF starts_with(s, <<"0", "x">>)
    THEN LET r == from_str_radix(SubSeq(s, 3, Len(s)), 16, 0, U64Max)
         IN IF r.kind = "Ok" THEN Built(IntegerValue("U64", r.n))
            ELSE BuildFailed(NumberFormat(s, location))
    ELSE IF starts_with(s, <<"0", "b">>)
    THEN LET r == from_str_radix(SubSeq(s, 3, Len(s)), 2, 0, U64Max)
         IN IF r.kind = "Ok" THEN Built(IntegerValue("U64", r.n))
            ELSE BuildFailed(NumberFormat(s, location))
    ELSE LET r == from_str_radix(s, 10, I64Min, I64Max)
         IN IF r.kind = "Ok" THEN Built(IntegerValue("I64", r.n))
            ELSE BuildFailed(NumberFormat(s, location))

\* The array_type arm of build_field_type (lib.rs:229-238): a length that
\* does not parse as usize is a new_number_range_error.
build_array_length(s, location) ==
    LET r == from_str_radix(s, 10, 0, U64Max)
    IN IF r.kind = "Ok" THEN Built(IntegerValue("U64", r.n))
       ELSE BuildFailed(NumberRange(s, location))

(***************************************************************************)
(* Specification of literal building: an enum whose variants take their    *)
(* values from literal texts, then a struct whose array fields take their  *)
(* lengths from length texts.  The texts are those the grammar's           *)
(* integer_literal rule admits: decimal digits, 0x and hex digits, 0b and  *)
(* binary digits.                                                          *)
(***************************************************************************)
RECURSIVE Repeat(_, _)
Repeat(c, n) == IF n = 0 THEN <<>> ELSE <<c>> \o Repeat(c, n - 1)

RECURSIVE DecimalText(_)
DecimalText(n) ==
    IF n < 10 THEN <<DigitChars[n + 1]>>
    ELSE Append(DecimalText(n \div 10), DigitChars[(n % 10) + 1])

\* A decimal literal may carry a minus sign (`default = -1`, lib.rs:303).
LiteralTexts ==
    {<<"0">>, <<"5">>, DecimalText(I64Max), DecimalText(I64Max + 1),
     <<"-", "1">>, <<"-">> \o DecimalText(I64Max + 2),
     <<"0", "x", "5">>, <<"0", "x", "F">>, <<"0", "x">> \o Repeat("f", WordBits \div 4 + 1),
     <<"0", "b">> \o Repeat("1", WordBits),
     <<"0", "b", "1">> \o Repeat("0", WordBits)}

LengthTexts == {<<"2">>, DecimalText(U64Max), DecimalText(U64Max + 1)}

\* The enum's base type: I32 when the source gives none (lib.rs:159-165).
LiteralBaseTypes == {"I32", "U32", "U64"}

InitLiteral ==
    /\ \E base_type \in LiteralBaseTypes :
          schema = Schema(<<>>, <<EnumDecl(<<"e", "n">>, base_type, <<>>),
                                  StructDecl(<<"s", "t">>, <<>>)>>)
    /\ result = Idle
    /\ pc = "building"
    /\ out_dart = Idle /\ out_rust = Idle
    /\ cli = Idle /\ hash_order = <<>> /\ ast_file = Idle /\ backend = Idle
    /\ output = Idle /\ exit_code = Running /\ stderr = Idle
    /\ literal = <<>> /\ meta_block = <<>>
    /\ ft = Idle /\ value = Idle /\ stream = <<>> /\ unpacked = Idle

\* build_enum_decl (lib.rs:170-179): the variant's literal is built, and a
\* failure ends the build with the error (the ? at lib.rs:174).
BuildLiteralVariant ==
    /\ pc = "building"
    /\ schema.declarations[2].members = <<>>
    /\ Len(schema.declarations[1].members) < MaxFields
    /\ \E s \in LiteralTexts :
         LET n == Len(schema.declarations[1].members) + 1
         IN \E r \in {build_integer_literal(s, Location(1, n))} :
              /\ literal' = s
              /\ IF r.ok
                 THEN /\ schema' = Schema(schema.metadata,
                                          [schema.declarations EXCEPT
                                              ![1].members =
                                                  Append(@, Member(VariantNames[n], r.x))])
                      /\ UNCHANGED <<result, pc>>
                 ELSE /\ result' = r.error
                      /\ pc' = "failed"
                      /\ UNCHANGED schema
    /\ UNCHANGED <<out_dart, out_rust, ft, value, stream, unpacked,
                 cli, hash_order, ast_file, backend, output, exit_code, stderr,
                 meta_block>>

\* build_struct_decl with an array field of fixed length (lib.rs:229-244).
BuildArrayField ==
    /\ pc = "building"
    /\ Len(schema.declarations[2].members) < MaxFields
    /\ \E s \in LengthTexts :
         LET n == Len(schema.declarations[2].members) + 1
         IN \E r \in {build_array_length(s, Location(2, n))} :
              /\ literal' = s
              /\ IF r.ok
                 THEN /\ schema' = Schema(schema.metadata,
                                          [schema.declarations EXCEPT
                                              ![2].members =
                                                  Append(@, Member(VariantNames[n],
                                                      Array(Builtin(BtBool, FALSE),
                                                            r.x.n, FALSE)))])
                      /\ UNCHANGED <<result, pc>>
                 ELSE /\ result' = r.error
                      /\ pc' = "failed"
                      /\ UNCHANGED schema
    /\ UNCHANGED <<out_dart, out_rust, ft, value, stream, unpacked,
                 cli, hash_order, ast_file, backend, output, exit_code, stderr,
                 meta_block>>

NextLiteral == BuildLiteralVariant \/ BuildArrayField \/ Validate

SpecLiteral == InitLiteral /\ [][NextLiteral]_vars

(***************************************************************************)
(* Driver (morph.rs): the schema is built from the input file, then run    *)
(* writes the AST file, fails for want of a format, or pipes the encoded   *)
(* schema to the backend named by the format and writes what it printed.   *)
(* Creating and writing files is taken to succeed.                         *)
(***************************************************************************)
MetaKeys == {"version", "name"}
MetaValues == {MetaInteger(IntegerValue("I64", 1)), MetaString("s")}

DriverDecls ==
    {EnumDecl(WireEnumIdent, "U8",
              <<Member(<<"r">>, NoValue), Member(<<"g">>, IntegerValue("I64", 5)),
                Member(<<"b">>, NoValue)>>),
     StructDecl(WireStructIdent,
                <<Member(<<"x">>, Builtin(BtInteger("I32"), FALSE)),
                  Member(<<"l">>, UserDefined(WireEnumIdent, TRUE))>>),
     StructDecl(WireHolderIdent,
                <<Member(<<"m">>, Map(BtString,
                                      Array(Builtin(BtFloat("F32"), TRUE), 2, FALSE), TRUE)),
                  Member(<<"k">>, Builtin(BtBool, FALSE))>>),
     EnumDecl(<<"e", "n">>, "I32", <<Member(<<"a">>, IntegerValue("I64", I64Max))>>)}

\* Cli: -t AST_FILE, -f FORMAT, -o OUTPUT_FILE
Formats == {"none", "dart-mp", "rust-serde"}
Cli(ast_path, format, output_path) ==
    [ast_path |-> ast_path, format |-> format, output_path |-> output_path]

ErrorMessage(text) == [tag |-> text, a |-> <<>>, b |-> <<>>]
File(bytes) == [tag |-> "File", bytes |-> bytes]
Invoked(cmd, stdin) == [tag |-> "Invoked", cmd |-> cmd, stdin |-> stdin]
Written(to, text) == [tag |-> "Written", to |-> to, text |-> text]

InitDriver ==
    /\ schema = Schema(<<>>, <<>>)
    /\ result = Idle
    /\ pc = "building"
    /\ out_dart = Idle /\ out_rust = Idle
    /\ cli \in {Cli(t, f, o) : t \in BOOLEAN, f \in Formats, o \in BOOLEAN}
    /\ hash_order = <<>> /\ ast_file = Idle /\ backend = Idle
    /\ output = Idle /\ exit_code = Running /\ stderr = Idle
    /\ literal = <<>> /\ meta_block = <<>>
    /\ ft = Idle /\ value = Idle /\ stream = <<>> /\ unpacked = Idle

\* The orders a HashMap can iterate in once key k is inserted: a new key
\* lands anywhere, a key already present keeps its place.
OrdersWith(order, k) ==
    IF \E i \in 1..Len(order) : order[i] = k THEN {order}
    ELSE {SubSeq(order, 1, i) \o <<k>> \o SubSeq(order, i + 1, Len(order)) :
             i \in 0..Len(order)}

\* Every order a HashMap with the given keys can iterate in.
RECURSIVE Orders(_)
Orders(keys) ==
    IF keys = {} THEN {<<>>}
    ELSE UNION {UNION {OrdersWith(order, k) : order \in Orders(keys \ {k})} : k \in keys}

\* One `ident = literal` entry of the leading meta block, as the parser
\* hands it to build_meta_decl.
MetaEntry(k, v) == [key |-> k, value |-> v]

\* Mutant: an entry whose key is present already is dropped.
insert_keeps_first(metadata, k, v) == metadata @@ (k :> v)

\* HashMap::insert: the value replaces the one the key had.
insert(metadata, k, v) == (k :> v) @@ metadata

\* metadata.insert(ident, value) for the next entry of the meta block
BuildMeta ==
    /\ pc = "building"
    /\ schema.declarations = <<>>
    /\ Len(meta_block) < MaxMeta
    /\ \E k \in MetaKeys : \E v \in MetaValues :
          /\ meta_block' = Append(meta_block, MetaEntry(k, v))
          /\ schema' = Schema(insert(schema.metadata, k, v), schema.declarations)
          /\ hash_order' \in OrdersWith(hash_order, k)
    /\ UNCHANGED <<result, pc, out_dart, out_rust, ft, value, stream, unpacked,
                 cli, ast_file, backend, output, exit_code, stderr,
                 literal>>

\* declarations.push(declaration)
BuildDeclaration ==
    /\ pc = "building"
    /\ Len(schema.declarations) < MaxDecls
    /\ \E d \in DriverDecls :
          schema' = Schema(schema.metadata, Append(schema.declarations, d))
    /\ UNCHANGED <<result, pc, out_dart, out_rust, ft, value, stream, unpacked,
                 cli, hash_order, ast_file, backend, output, exit_code, stderr,
                 literal, meta_block>>

\* build returns an error before validate is reached: read_to_string fails
\* on a missing input file (lib.rs:41), the parser rejects the text
\* (lib.rs:42-52), or a literal of the declaration being built fails
\* (lib.rs:62-63 through build_integer_literal).
BuildFails ==
    /\ pc = "building"
    /\ \/ /\ schema = Schema(<<>>, <<>>)
          /\ result' \in {IoError, ParseError(<<"x">>, Location(1, 1))}
       \/ /\ Len(schema.declarations) < MaxDecls
          /\ \E r \in {build_integer_literal(DecimalText(I64Max + 1),
                           Location(Len(schema.declarations) + 1, 1))} :
                ~r.ok /\ result' = r.error
    /\ pc' = "validated"
    /\ UNCHANGED <<schema, out_dart, out_rust, ft, value, stream, unpacked,
                 cli, hash_order, ast_file, backend, output, exit_code, stderr,
                 literal, meta_block>>

\* Mutant: the backend's exit status is not checked, and what it printed
\* before failing is written as the output.
run_unchecked_backend(c, s, res, order, overflow_checks) ==
    LET bytes == encode(s, order)
        decoded == decode(bytes)
        text == IF c.format = "dart-mp" THEN dart_generate(decoded.val, overflow_checks)
                ELSE serde_generate(decoded.val)
        none == [ast_file |-> Idle, backend |-> Idle, out |-> Idle, output |-> Idle,
                 exit_code |-> 1, stderr |-> Idle]
    IN IF res # Ok THEN [none EXCEPT !.stderr = res]
       ELSE IF c.ast_path THEN [none EXCEPT !.ast_file = File(bytes), !.exit_code = 0]
       ELSE IF c.format = "none"
       THEN [none EXCEPT !.stderr = ErrorMessage("No output format specified")]
       ELSE IF ~decoded.ok \/ text = Panic
       THEN [none EXCEPT !.backend = Invoked(c.format, bytes),
                         !.output = Written(c.output_path, Idle), !.exit_code = 0]
       ELSE [none EXCEPT !.backend = Invoked(c.format, bytes), !.out = text,
                         !.output = Written(c.output_path, text), !.exit_code = 0]

\* Mutant: with an AST path and a format, the backend runs as well.
run_also_generates(c, s, res, order, overflow_checks) ==
    LET bytes == encode(s, order)
        decoded == decode(bytes)
        text == IF c.format = "dart-mp" THEN dart_generate(decoded.val, overflow_checks)
                ELSE serde_generate(decoded.val)
        none == [ast_file |-> Idle, backend |-> Idle, out |-> Idle, output |-> Idle,
                 exit_code |-> 1, stderr |-> Idle]
    IN IF res # Ok THEN [none EXCEPT !.stderr = res]
       ELSE IF c.format = "none" /\ ~c.ast_path
       THEN [none EXCEPT !.stderr = ErrorMessage("No output format specified")]
       ELSE IF c.format = "none"
       THEN [none EXCEPT !.ast_file = File(bytes), !.exit_code = 0]
       ELSE IF ~decoded.ok \/ text = Panic
       THEN [none EXCEPT !.backend = Invoked(c.format, bytes),
                         !.stderr = ErrorMessage("Failed to run AST formatter")]
       ELSE [none EXCEPT !.ast_file = IF c.ast_path THEN File(bytes) ELSE Idle,
                         !.backend = Invoked(c.format, bytes), !.out = text,
                         !.output = Written(c.output_path, text), !.exit_code = 0]

\* Mutant: without a format the driver exits quietly, as it does for a
\* command line it cannot parse.
run_no_format_ok(c, s, res, order, overflow_checks) ==
    LET bytes == encode(s, order)
        decoded == decode(bytes)
        text == IF c.format = "dart-mp" THEN dart_generate(decoded.val, overflow_checks)
                ELSE serde_generate(decoded.val)
        none == [ast_file |-> Idle, backend |-> Idle, out |-> Idle, output |-> Idle,
                 exit_code |-> 1, stderr |-> Idle]
    IN IF res # Ok THEN [none EXCEPT !.stderr = res]
       ELSE IF c.ast_path THEN [none EXCEPT !.ast_file = File(bytes), !.exit_code = 0]
       ELSE IF c.format = "none" THEN [none EXCEPT !.exit_code = 0]
       ELSE IF ~decoded.ok \/ text = Panic
       THEN [none EXCEPT !.backend = Invoked(c.format, bytes),
                         !.stderr = ErrorMessage("Failed to run AST formatter")]
       ELSE [none EXCEPT !.backend = Invoked(c.format, bytes), !.out = text,
                         !.output = Written(c.output_path, text), !.exit_code = 0]

\* run (morph.rs:55-98) after build returned res, with main's mapping of an
\* error to exit status 1: what the process leaves behind.  The backend
\* process (run of morph_dart_mp.rs / geno_rust_serde.rs) decodes its input
\* and prints generate's text; its failure fails the driver.
run(c, s, res, order, overflow_checks) ==
    LET bytes == encode(s, order)
        decoded == decode(bytes)
        text == IF c.format = "dart-mp" THEN dart_generate(decoded.val, overflow_checks)
                ELSE serde_generate(decoded.val)
        none == [ast_file |-> Idle, backend |-> Idle, out |-> Idle, output |-> Idle,
                 exit_code |-> 1, stderr |-> Idle]
    IN IF res # Ok THEN [none EXCEPT !.stderr = res]
       ELSE IF c.ast_path THEN [none EXCEPT !.ast_file = File(bytes), !.exit_code = 0]
       ELSE IF c.format = "none"
       THEN [none EXCEPT !.stderr = ErrorMessage("No output format specified")]
       ELSE IF ~decoded.ok \/ text = Panic
       THEN [none EXCEPT !.backend = Invoked(c.format, bytes),
                         !.stderr = ErrorMessage("Failed to run AST formatter")]
       ELSE [none EXCEPT !.backend = Invoked(c.format, bytes), !.out = text,
                         !.output = Written(c.output_path, text), !.exit_code = 0]

\* The driver process from the end of build to its exit.  A file it does
\* not write keeps its contents.
Run ==
    /\ pc = "validated"
    /\ cli # Idle
    /\ \E overflow_checks \in BOOLEAN :
          \E r \in {run(cli, schema, result, hash_order, overflow_checks)} :
             /\ ast_file' = IF r.ast_file # Idle THEN r.ast_file ELSE ast_file
             /\ backend' = r.backend
             /\ output' = r.output
             /\ out_dart' = IF cli.format = "dart-mp" THEN r.out ELSE Idle
             /\ out_rust' = IF cli.format = "rust-serde" THEN r.out ELSE Idle
             /\ exit_code' = r.exit_code
             /\ stderr' = r.stderr
    /\ pc' = "done"
    /\ UNCHANGED <<schema, result, ft, value, stream, unpacked, cli, hash_order,
                 literal, meta_block>>

\* The driver is started again on the same input file with the same
\* options: build gives the same Schema value, held in a HashMap of this
\* process with its own iteration order.
Rerun ==
    /\ pc = "done"
    /\ hash_order' \in Orders(DOMAIN schema.metadata)
    /\ pc' = "validated"
    /\ backend' = Idle /\ output' = Idle /\ out_dart' = Idle /\ out_rust' = Idle
    /\ exit_code' = Running /\ stderr' = Idle
    /\ UNCHANGED <<schema, result, ft, value, stream, unpacked, cli, ast_file,
                 literal, meta_block>>

NextDriver == BuildMeta \/ BuildDeclaration \/ BuildFails \/ Validate \/ Run \/ Rerun

SpecDriver == InitDriver /\ [][NextDriver]_vars

(***************************************************************************)
(* Specification of identifier casing as functions of the text: one struct *)
(* with one field, whose identifier and field name are every text over a   *)
(* lower-case letter, an upper-case letter and the underscore.             *)
(***************************************************************************)
IdentChars == {"a", "B", "_"}

MaxChars == 5

IdentSchema(ident, name) ==
    Schema(<<>>, <<StructDecl(ident, <<Member(name, Builtin(BtBool, FALSE))>>)>>)

InitIdent ==
    /\ \E c \in IdentChars : \E f \in IdentChars : schema = IdentSchema(<<c>>, <<f>>)
    /\ result = Idle
    /\ pc = "building"
    /\ out_dart = Idle /\ out_rust = Idle
    /\ cli = Idle /\ hash_order = <<>> /\ ast_file = Idle /\ backend = Idle
    /\ output = Idle /\ exit_code = Running /\ stderr = Idle
    /\ literal = <<>> /\ meta_block = <<>>
    /\ ft = Idle /\ value = Idle /\ stream = <<>> /\ unpacked = Idle

IdentRoom ==
    MaxChars - Len(schema.declarations[1].ident)
             - Len(schema.declarations[1].members[1].name)

\* The struct's identifier as build_struct_decl takes it from the source
\* (lib.rs:194-198), one character longer.
ExtendIdent ==
    /\ pc = "building"
    /\ IdentRoom >= 1
    /\ \E c \in IdentChars :
         schema' = IdentSchema(Append(schema.declarations[1].ident, c),
                               schema.declarations[1].members[1].name)
    /\ UNCHANGED <<result, pc, out_dart, out_rust, ft, value, stream, unpacked,
                 cli, hash_order, ast_file, backend, output, exit_code, stderr,
                 literal, meta_block>>

\* The field's name as build_struct_decl takes it (lib.rs:200-208).
ExtendField ==
    /\ pc = "building"
    /\ IdentRoom >= 1
    /\ \E c \in IdentChars :
         schema' = IdentSchema(schema.declarations[1].ident,
                               Append(schema.declarations[1].members[1].name, c))
    /\ UNCHANGED <<result, pc, out_dart, out_rust, ft, value, stream, unpacked,
                 cli, hash_order, ast_file, backend, output, exit_code, stderr,
                 literal, meta_block>>

NextIdent == ExtendIdent \/ ExtendField \/ Validate \/ GenerateDart \/ GenerateRust

SpecIdent == InitIdent /\ [][NextIdent]_vars

(***************************************************************************)
(* Declarative readings of the validator's invariants (spec section 3),    *)
(* used to state the claims about validate.                                *)
(***************************************************************************)
Decls == schema.declarations

Validated == pc = "validated"

\* Declaration j repeats the identifier of an earlier declaration.
RepeatsIdent(j) == \E i \in 1..(j - 1) : Decls[i].ident = Decls[j].ident

\* Member b of declaration j repeats the name of an earlier member of j.
RepeatsMember(j, b) ==
    \E a \in 1..(b - 1) : Decls[j].members[a].name = Decls[j].members[b].name

HasDupMember(j) == \E b \in 1..Len(Decls[j].members) : RepeatsMember(j, b)

\* No duplicate of any kind in the declarations before j.
CleanBefore(j) == \A i \in 1..(j - 1) : ~RepeatsIdent(i) /\ ~HasDupMember(i)

NoDuplicates == CleanBefore(Len(Decls) + 1)

DeclaredNames == {Decls[i].ident : i \in 1..Len(Decls)}

\* The user-defined name a field type refers to, <<>> when it has none.
RECURSIVE RefName(_)
RefName(t) ==
    IF t.tag = "UserDefined" THEN t.name
    ELSE IF t.tag \in {"Array", "Map"} THEN RefName(t.inner)
    ELSE <<>>

\* Field j of declaration i is a struct field referring to no declaration.
Dangling(i, j) ==
    /\ Decls[i].tag = "Struct"
    /\ RefName(Decls[i].members[j].x) # <<>>
    /\ RefName(Decls[i].members[j].x) \notin DeclaredNames

FieldPositions == {p \in (1..Len(Decls)) \X (1..MaxSize + 1) : p[2] <= Len(Decls[p[1]].members)}

Before(p, q) == p[1] < q[1] \/ (p[1] = q[1] /\ p[2] < q[2])

\* C7 as stated: whenever two declarations share an identifier, validate
\* returns DuplicateType carrying an identifier that two declarations share.
C7_AnySharedIdentIsDuplicateType ==
    (Validated /\ \E j \in 1..Len(Decls) : RepeatsIdent(j)) =>
        \E j \in 1..Len(Decls) :
            RepeatsIdent(j) /\ result = DuplicateType(Decls[j].ident)

\* C7 (amended): validate returns DuplicateType(ident) for the first
\* declaration whose identifier repeats an earlier declaration's, whatever the
\* kinds of the two declarations (enum or struct), provided no declaration
\* before it has two members of the same name.
C7_DuplicateType ==
    Validated =>
        \A j \in 1..Len(Decls) :
            (RepeatsIdent(j) /\ CleanBefore(j)) => result = DuplicateType(Decls[j].ident)

C7_Witness ==
    /\ Validated
    /\ Len(Decls) = 2
    /\ Decls[1].tag = "Enum" /\ Decls[2].tag = "Struct"
    /\ Decls[1].ident = Decls[2].ident
    /\ result = DuplicateType(Decls[2].ident)

\* C8 as stated: whenever a declaration holds two members of one name,
\* validate returns DuplicateField / DuplicateVariant carrying the identifier
\* of such a declaration and the name it holds twice.
C8_AnySharedMemberIsDuplicateMember ==
    (Validated /\ \E j \in 1..Len(Decls) : HasDupMember(j)) =>
        \E j \in 1..Len(Decls) : \E b \in 1..Len(Decls[j].members) :
            /\ RepeatsMember(j, b)
            /\ result = IF Decls[j].tag = "Struct"
                        THEN DuplicateField(Decls[j].ident, Decls[j].members[b].name)
                        ELSE DuplicateVariant(Decls[j].ident, Decls[j].members[b].name)

\* C8 (amended): for the first declaration holding two members of one name,
\* provided neither it nor an earlier declaration repeats a type identifier,
\* validate returns DuplicateField(struct ident, name) or
\* DuplicateVariant(enum ident, name) for the first member name repeated in
\* it; and a DuplicateField/DuplicateVariant is returned only for a
\* declaration that itself holds the name twice, so a name shared between
\* declarations or with a type is no error.
C8_DuplicateMember ==
    Validated =>
        /\ \A j \in 1..Len(Decls) : \A b \in 1..Len(Decls[j].members) :
              ( /\ RepeatsMember(j, b)
                /\ \A c \in 1..(b - 1) : ~RepeatsMember(j, c)
                /\ CleanBefore(j) /\ ~RepeatsIdent(j) )
              => result = IF Decls[j].tag = "Struct"
                          THEN DuplicateField(Decls[j].ident, Decls[j].members[b].name)
                          ELSE DuplicateVariant(Decls[j].ident, Decls[j].members[b].name)
        /\ result.tag \in {"DuplicateField", "DuplicateVariant"} =>
              \E j \in 1..Len(Decls) : \E b \in 1..Len(Decls[j].members) :
                 /\ Decls[j].ident = result.a
                 /\ Decls[j].members[b].name = result.b
                 /\ RepeatsMember(j, b)
                 /\ (Decls[j].tag = "Struct") = (result.tag = "DuplicateField")

\* A struct named like its twice-declared field.
C8_Witness ==
    /\ Validated
    /\ result = DuplicateField(<<"A">>, <<"A">>)

\* C9: for a schema without duplicates in which some struct field type
\* contains, at any depth of Array elements and Map values and whatever the
\* nullable flags, a UserDefined name that no declaration has, validate
\* returns UndefinedType(name); of several such names it is the one of the
\* first such field in declaration order, then field order.
C9_UndefinedType ==
    (Validated /\ NoDuplicates) =>
        \A p \in FieldPositions :
            ( /\ Dangling(p[1], p[2])
              /\ \A q \in FieldPositions : Before(q, p) => ~Dangling(q[1], q[2]) )
            => result = UndefinedType(RefName(Decls[p[1]].members[p[2]].x))

\* An undeclared name two constructors deep, under a nullable constructor.
C9_Witness ==
    /\ Validated /\ NoDuplicates
    /\ \E p \in FieldPositions :
          LET t == Decls[p[1]].members[p[2]].x
          IN /\ Dangling(p[1], p[2])
             /\ t.tag = "Map" /\ t.nullable
             /\ t.inner.tag = "Array"
             /\ t.inner.inner.tag = "UserDefined"
             /\ result = UndefinedType(t.inner.inner.name)

\* C10: a schema without duplicates whose struct fields refer only to
\* declared names validates Ok, wherever the referred declaration stands:
\* later in the schema, the referring struct itself, or a struct that refers
\* back.
C10_ForwardAndCyclicOk ==
    (Validated /\ NoDuplicates /\ \A p \in FieldPositions : ~Dangling(p[1], p[2]))
        => result = Ok

\* Two structs referring to each other; the first one refers forward.
C10_Witness ==
    /\ Validated
    /\ Len(Decls) = 2
    /\ Decls[1].tag = "Struct" /\ Decls[2].tag = "Struct"
    /\ Len(Decls[1].members) = 1 /\ Len(Decls[2].members) = 1
    /\ RefName(Decls[1].members[1].x) = Decls[2].ident
    /\ RefName(Decls[2].members[1].x) = Decls[1].ident
    /\ Decls[1].ident # Decls[2].ident
    /\ ~Decls[1].members[1].x.nullable
    /\ result = Ok

\* The first declaration with a duplicate of either kind, 0 when none has.
FirstDupDecl ==
    IF NoDuplicates THEN 0
    ELSE CHOOSE j \in 1..Len(Decls) :
            (RepeatsIdent(j) \/ HasDupMember(j)) /\ CleanBefore(j)

\* The first member of declaration j that repeats an earlier member's name.
FirstDupMember(j) ==
    CHOOSE b \in 1..Len(Decls[j].members) :
        RepeatsMember(j, b) /\ \A c \in 1..(b - 1) : ~RepeatsMember(j, c)

AnyDangling == \E p \in FieldPositions : Dangling(p[1], p[2])

FirstDangling ==
    CHOOSE p \in FieldPositions :
        /\ Dangling(p[1], p[2])
        /\ \A q \in FieldPositions : Before(q, p) => ~Dangling(q[1], q[2])

\* C19: validate reports the first violation in a fixed order.  Duplicates
\* come first: of the first declaration that has one, its repeated type
\* name if it repeats one, else its first repeated member; this also when a
\* field of that or of an earlier declaration refers to an undefined type.
\* Only without any duplicate is an undefined type reported, the first in
\* declaration order, then field order.
C19_FirstViolationInFixedOrder ==
    Validated =>
        result =
            IF FirstDupDecl # 0
            THEN LET j == FirstDupDecl
                 IN IF RepeatsIdent(j) THEN DuplicateType(Decls[j].ident)
                    ELSE IF Decls[j].tag = "Struct"
                    THEN DuplicateField(Decls[j].ident,
                                        Decls[j].members[FirstDupMember(j)].name)
                    ELSE DuplicateVariant(Decls[j].ident,
                                          Decls[j].members[FirstDupMember(j)].name)
            ELSE IF AnyDangling
            THEN UndefinedType(RefName(Decls[FirstDangling[1]].members[FirstDangling[2]].x))
            ELSE Ok

\* A field of the first declaration refers to an undefined type and the
\* second declaration repeats the first one's name: the duplicate is
\* reported.
C19_Witness ==
    /\ Validated
    /\ Len(Decls) = 2
    /\ \E b \in 1..Len(Decls[1].members) : Dangling(1, b)
    /\ ~HasDupMember(1)
    /\ RepeatsIdent(2)
    /\ result = DuplicateType(Decls[2].ident)

(***************************************************************************)
(* Claims about enum discriminants (SpecEnum).                             *)
(***************************************************************************)
DartDone == out_dart # Idle
RustDone == out_rust # Idle

\* The discriminant the inference rule of spec section 4.4 assigns to
\* variant i, on mathematical integers: the explicit value, else one more
\* than the previous variant's, else 0.
RECURSIVE Discriminant(_, _)
Discriminant(variants, i) ==
    IF variants[i].x # NoValue THEN variants[i].x.n
    ELSE IF i = 1 THEN 0
    ELSE Discriminant(variants, i - 1) + 1

\* The discriminant the emitted Rust enum fixes for variant i: the value
\* written after `=`, else the language's previous-plus-one numbering.
RECURSIVE RustDiscriminant(_, _)
RustDiscriminant(lines, i) ==
    IF lines[i].explicit THEN lines[i].value
    ELSE IF i = 1 THEN 0
    ELSE RustDiscriminant(lines, i - 1) + 1

\* C3: the explicit backend emits for every variant the value given by the
\* next-value rule: an explicit value v is emitted as v and makes the next
\* value v + 1, a variant without one gets the next value.
C3_DartDiscriminants ==
    (DartDone /\ out_dart # Panic) =>
        \A i \in 1..Len(Decls[1].members) :
            out_dart.items[1].variants[i].value = Discriminant(Decls[1].members, i)

\* C4: for every variant, the discriminant fixed by the structural backend's
\* output equals the one the explicit backend emits.
C4_SameDiscriminants ==
    (DartDone /\ RustDone /\ out_dart # Panic) =>
        \A i \in 1..Len(Decls[1].members) :
            out_dart.items[1].variants[i].value
                = RustDiscriminant(out_rust.items[1].variants, i)

\* Check of the model: on the example of spec section 8, [a, b=5, c, d=1, e],
\* the explicit backend emits 0, 5, 6, 1, 2.
EnumExampleOk ==
    (DartDone /\ Len(Decls[1].members) = 5
       /\ [i \in 1..5 |-> Decls[1].members[i].x]
            = <<NoValue, IntegerValue("I64", 5), NoValue, IntegerValue("I64", 1), NoValue>>)
    => (out_dart # Panic
        /\ [i \in 1..5 |-> out_dart.items[1].variants[i].value] = <<0, 5, 6, 1, 2>>)

\* Check of the model: the two claims hold on enums whose explicit values
\* and their successors fit the signed 64-bit range.
InRange == \A i \in 1..Len(Decls[1].members) :
              Discriminant(Decls[1].members, i) < I64Max

EnumInRangeOk ==
    (DartDone /\ RustDone /\ InRange) =>
        /\ out_dart # Panic
        /\ \A i \in 1..Len(Decls[1].members) :
              /\ out_dart.items[1].variants[i].value = Discriminant(Decls[1].members, i)
              /\ out_dart.items[1].variants[i].value
                    = RustDiscriminant(out_rust.items[1].variants, i)

\* C20: for every variant with an explicit value, of whatever kind and also
\* for a U64 value above the signed 64-bit maximum, generation completes,
\* the emitted discriminant is the literal's mathematical value, and a
\* following variant without a value gets that value plus one, with no
\* overflow and no wrap.
C20_ExplicitValuesExact ==
    DartDone =>
        /\ out_dart # Panic
        /\ \A i \in 1..Len(Decls[1].members) :
              Decls[1].members[i].x # NoValue =>
                 /\ out_dart.items[1].variants[i].value = Decls[1].members[i].x.n
                 /\ (i < Len(Decls[1].members) /\ Decls[1].members[i + 1].x = NoValue)
                       => out_dart.items[1].variants[i + 1].value
                              = Decls[1].members[i].x.n + 1

\* What the generator does with explicit values: a value up to the signed
\* maximum is emitted as it is, a U64 value above it is emitted 2^64 lower,
\* and the signed maximum itself leaves no next value (the addition
\* overflows: a panic, or a wrap to the minimum in a build without overflow
\* checks).
ExplicitValuesAsEmitted ==
    (DartDone /\ out_dart # Panic) =>
        \A i \in 1..Len(Decls[1].members) :
            LET x == Decls[1].members[i].x
                emitted == out_dart.items[1].variants[i].value
            IN x # NoValue =>
                 /\ x.n <= I64Max => emitted = x.n
                 /\ x.n > I64Max => emitted = x.n - Pow2(WordBits)
                 /\ (i < Len(Decls[1].members) /\ Decls[1].members[i + 1].x = NoValue)
                       => out_dart.items[1].variants[i + 1].value
                              = IF emitted = I64Max THEN I64Min ELSE emitted + 1

\* C25: in a schema that passed validate the discriminants inferred for the
\* variants of an enum are pairwise distinct, and the generated lookup of a
\* variant by its discriminant (the one read of _unpackNullable) returns
\* the variant the discriminant was taken from.
C25_DiscriminantsDistinct ==
    /\ (Validated /\ result = Ok) =>
          \A i, j \in 1..Len(Decls[1].members) :
             i # j => Discriminant(Decls[1].members, i) # Discriminant(Decls[1].members, j)
    /\ (DartDone /\ out_dart # Panic) =>
          \A k \in 1..Len(Decls[1].members) :
             enum_unpack_nullable(out_dart.items[1],
                                  <<VInt(out_dart.items[1].variants[k].value)>>)
                = Read(VEnum(out_dart.items[1].name, k), <<>>)

\* What validate does with an enum's values: nothing.  Every enum with
\* distinct variant names passes, and the lookup returns the first variant
\* that has the discriminant.
ValidateIgnoresValues ==
    /\ Validated => result = Ok
    /\ (DartDone /\ out_dart # Panic) =>
          \A k \in 1..Len(Decls[1].members) :
             LET c == out_dart.items[1]
                 first == CHOOSE j \in 1..k :
                             /\ c.variants[j].value = c.variants[k].value
                             /\ \A h \in 1..(j - 1) : c.variants[h].value # c.variants[k].value
             IN enum_unpack_nullable(c, <<VInt(c.variants[k].value)>>)
                   = Read(VEnum(c.name, first), <<>>)

(***************************************************************************)
(* Claims about identifier casing in the generators (SpecCasing).          *)
(***************************************************************************)
\* The casing transforms of spec section 4.4, read character by character:
\* underscores are dropped, and a character is capitalized when it starts
\* the identifier or follows an underscore; lower camel instead lower-cases
\* the character that starts the identifier.
RECURSIVE CamelFrom(_, _, _)
CamelFrom(s, i, lower_first) ==
    IF i > Len(s) THEN <<>>
    ELSE (IF s[i] = "_" THEN <<>>
          ELSE IF i = 1 THEN <<IF lower_first THEN to_lowercase(s[i]) ELSE to_uppercase(s[i])>>
          ELSE IF s[i - 1] = "_" THEN <<to_uppercase(s[i])>>
          ELSE <<s[i]>>)
         \o CamelFrom(s, i + 1, lower_first)

UpperCamel(s) == CamelFrom(s, 1, FALSE)
LowerCamel(s) == CamelFrom(s, 1, TRUE)

BothDone == DartDone /\ RustDone /\ out_dart # Panic

Members(i) == Decls[i].members

\* Both backends name every type in upper camel.
TypeNamesUpperCamel ==
    \A i \in 1..Len(Decls) :
        /\ out_rust.items[i].name = UpperCamel(Decls[i].ident)
        /\ out_dart.items[i].name = UpperCamel(Decls[i].ident)

\* C5 as stated: both backends name every type and every enum variant with
\* the upper-camel transform of the declared name.
C5_AllUpperCamel ==
    BothDone =>
        /\ TypeNamesUpperCamel
        /\ \A i \in 1..Len(Decls) : Decls[i].tag = "Enum" =>
              \A j \in 1..Len(Members(i)) :
                 /\ out_rust.items[i].variants[j].name = UpperCamel(Members(i)[j].name)
                 /\ out_dart.items[i].variants[j].name = UpperCamel(Members(i)[j].name)

\* C5 (amended): both backends name every enum and struct with the
\* upper-camel transform of its declared identifier; the structural backend
\* names every variant with the upper-camel transform of its declared name,
\* the explicit backend with the lower-camel transform.
C5_TypeAndVariantCasing ==
    BothDone =>
        /\ TypeNamesUpperCamel
        /\ \A i \in 1..Len(Decls) : Decls[i].tag = "Enum" =>
              \A j \in 1..Len(Members(i)) :
                 /\ out_rust.items[i].variants[j].name = UpperCamel(Members(i)[j].name)
                 /\ out_dart.items[i].variants[j].name = LowerCamel(Members(i)[j].name)

\* An enum a_b with the variant a_b: AB in both outputs, variant AB in the
\* structural one and aB in the explicit one.
C5_Witness ==
    /\ BothDone
    /\ Len(Decls) >= 1
    /\ Decls[1] = EnumDecl(<<"a", "_", "b">>, "I32", <<Member(<<"a", "_", "b">>, NoValue)>>)
    /\ out_rust.items[1].name = <<"A", "B">>
    /\ out_dart.items[1].name = <<"A", "B">>
    /\ out_rust.items[1].variants[1].name = <<"A", "B">>
    /\ out_dart.items[1].variants[1].name = <<"a", "B">>

\* The original-name override the explicit backend emits for field j of
\* class i: the emitted class carries none.
DartOverride(i, j) ==
    IF "rename" \in DOMAIN out_dart.items[i].fields[j]
    THEN out_dart.items[i].fields[j].rename
    ELSE NoRename

\* The structural backend renames a field exactly when snake casing changed
\* its name, to the declared name.
SerdeRenamesChangedFields ==
    \A i \in 1..Len(Decls) : Decls[i].tag = "Struct" =>
        \A j \in 1..Len(Members(i)) :
            LET f == out_rust.items[i].fields[j]
            IN /\ (f.rename # NoRename) <=> (f.name # Members(i)[j].name)
               /\ f.rename # NoRename => f.rename = Members(i)[j].name

\* C6 as stated: each backend emits an original-name override for a struct
\* field exactly when its field casing changed the declared name: the
\* structural backend (snake case) and the explicit backend (lower camel).
C6_BothBackendsOverride ==
    BothDone =>
        /\ SerdeRenamesChangedFields
        /\ \A i \in 1..Len(Decls) : Decls[i].tag = "Struct" =>
              \A j \in 1..Len(Members(i)) :
                 (DartOverride(i, j) # NoRename)
                    <=> (out_dart.items[i].fields[j].name # Members(i)[j].name)

\* C6 (amended): the structural backend emits an original-name override
\* (carrying the declared name) for a struct field whenever its snake casing
\* changes the declared field name, and none when the name is unchanged; the
\* explicit backend emits no override, whether or not its lower-camel casing
\* changes the name.
C6_OnlySerdeOverrides ==
    BothDone =>
        /\ SerdeRenamesChangedFields
        /\ \A i \in 1..Len(Decls) : Decls[i].tag = "Struct" =>
              \A j \in 1..Len(Members(i)) : DartOverride(i, j) = NoRename

\* A struct with the fields aB (renamed by snake casing, kept by lower
\* camel) and a_b (kept by snake casing, renamed by lower camel).
C6_Witness ==
    /\ BothDone
    /\ Len(Decls) = 1 /\ Decls[1].tag = "Struct" /\ Len(Members(1)) = 2
    /\ Members(1)[1].name = <<"a", "B">> /\ Members(1)[2].name = <<"a", "_", "b">>
    /\ out_rust.items[1].fields[1].name = <<"a", "_", "b">>
    /\ out_rust.items[1].fields[1].rename = <<"a", "B">>
    /\ out_rust.items[1].fields[2].rename = NoRename
    /\ out_dart.items[1].fields[2].name = <<"a", "B">>
    /\ DartOverride(1, 2) = NoRename
\* C24: in the output generated for a schema that passed validate, two
\* fields of one struct have different emitted names under the structural
\* backend's snake casing and under the explicit backend's lower-camel
\* casing, and two declarations have different emitted type names under
\* upper-camel casing, in either backend.
C24_EmittedNamesDistinct ==
    BothDone =>
        /\ \A i \in 1..Len(Decls) : Decls[i].tag = "Struct" =>
              \A j, k \in 1..Len(Members(i)) :
                 j # k =>
                    /\ out_rust.items[i].fields[j].name # out_rust.items[i].fields[k].name
                    /\ out_dart.items[i].fields[j].name # out_dart.items[i].fields[k].name
        /\ \A i, k \in 1..Len(Decls) :
              i # k =>
                 /\ out_rust.items[i].name # out_rust.items[k].name
                 /\ out_dart.items[i].name # out_dart.items[k].name

\* The declared names themselves are distinct whenever code is generated:
\* validate has passed.
DeclaredNamesDistinct ==
    BothDone =>
        /\ \A i \in 1..Len(Decls) : \A j, k \in 1..Len(Members(i)) :
              j # k => Members(i)[j].name # Members(i)[k].name
        /\ \A i, k \in 1..Len(Decls) : i # k => Decls[i].ident # Decls[k].ident

(***************************************************************************)
(* Claims about the explicit backend's wire encoding (SpecWire).           *)
(***************************************************************************)
Packed == pc \in {"packed", "unpacked"}
Unpacked == pc = "unpacked"
\* The value of the holder's field
FieldValue == value.v[1]

\* The base a field type's array / map constructors are wrapped around.
RECURSIVE BaseOf(_)
BaseOf(t) == IF t.tag \in {"Array", "Map"} THEN BaseOf(t.inner) ELSE t

RoundTrip == unpacked.ok /\ unpacked.rest = <<>> /\ unpacked.val = value

\* C1: for every field type and every value of it, fromBytes applied to the
\* items toBytes wrote consumes exactly those items, no more and no fewer,
\* and yields the original value.
C1_RoundTrip == Unpacked => RoundTrip

\* Every round trip that does not read a non-nullable enum succeeds.
RoundTripOutsideEnumUnpack ==
    (Unpacked /\ BaseOf(ft) # UserDefined(WireEnumIdent, FALSE)) => RoundTrip

\* A non-nullable enum is read back only when no value but the first of the
\* enumeration occurs in it.
RECURSIVE EnumIndexes(_)
EnumIndexes(v) ==
    CASE v.t = "enum" -> {v.v}
      [] v.t = "list" -> UNION {EnumIndexes(v.v[k]) : k \in 1..Len(v.v)}
      [] v.t = "map" -> UNION {EnumIndexes(v.v[k].value) : k \in 1..Len(v.v)}
      [] v.t = "obj" -> UNION {EnumIndexes(v.v[k]) : k \in 1..Len(v.v)}
      [] OTHER -> {}

EnumUnpackFailsPastFirst ==
    (Unpacked /\ BaseOf(ft) = UserDefined(WireEnumIdent, FALSE))
        => (RoundTrip <=> EnumIndexes(value) \subseteq {1})

\* The items toBytes writes for a holder whose field has type t and value v.
FieldItems(t, v) ==
    LET classes == dart_generate(WireSchema(t), FALSE).items
    IN to_bytes(VObj(to_pascal_case(WireHolderIdent), <<v>>), classes)

NonNullable(t) == [t EXCEPT !.nullable = FALSE]
IsEnumType(t) == t.tag = "UserDefined" /\ t.name = WireEnumIdent
\* Struct, array and map types: the kinds written with a presence marker.
IsCompound(t) == t.tag \in {"Array", "Map"} \/ (t.tag = "UserDefined" /\ ~IsEnumType(t))
PresenceMarker == [t |-> "bool", v |-> TRUE]

\* The single item of a builtin value or of an enum's discriminant.
BareItem(t, v) ==
    IF IsEnumType(t) THEN [t |-> "int", v |-> v.v - 1]
    ELSE [t |-> CASE t.bt.tag = "Integer" -> "int"
                  [] t.bt.tag = "Float" -> "double"
                  [] t.bt.tag = "String" -> "str"
                  [] t.bt.tag = "Bool" -> "bool",
          v |-> v.v]

\* The first item of a compound value's body: the length of an array or a
\* map, the first field (x, an integer) of the struct.
BodyHead(t, v) ==
    CASE t.tag = "Array" -> TArray(Len(v.v))
      [] t.tag = "Map" -> TMap(Len(v.v))
      [] OTHER -> [t |-> "int", v |-> v.v[1].v]

\* C2: the pack logic writes an absent nullable value as a single nil item;
\* a present nullable struct, array or map as the boolean true followed by
\* its body; a present nullable builtin or enum as the bare value or
\* discriminant with no marker; and a non-nullable value with neither a
\* presence marker nor a nil item in front of it.
C2_PresenceMarkers ==
    Packed =>
        LET v == FieldValue
        IN /\ (ft.nullable /\ v = VNull) => stream = <<TNil>>
           /\ (ft.nullable /\ v # VNull /\ IsCompound(ft)) =>
                 /\ Head(stream) = PresenceMarker
                 /\ Tail(stream) = FieldItems(NonNullable(ft), v)
                 /\ Head(Tail(stream)) = BodyHead(ft, v)
           /\ (ft.nullable /\ v # VNull /\ ~IsCompound(ft)) =>
                 stream = <<BareItem(ft, v)>>
           /\ (~ft.nullable /\ IsCompound(ft)) => Head(stream) = BodyHead(ft, v)
           /\ (~ft.nullable /\ ~IsCompound(ft)) => stream = <<BareItem(ft, v)>>

\* A present nullable array of nullable enums, one present and one absent,
\* has been packed.
C2_Witness ==
    /\ Packed
    /\ ft = Array(UserDefined(WireEnumIdent, TRUE), NoLength, TRUE)
    /\ FieldValue = VList(<<VEnum(to_pascal_case(WireEnumIdent), 2), VNull>>)
    /\ stream = <<PresenceMarker, TArray(2), [t |-> "int", v |-> 1], TNil>>

\* The enums among the emitted classes.
EmittedEnums == {c \in {out_dart.items[i] : i \in 1..Len(out_dart.items)} : c.kind = "enum"}

\* What may follow an enum's item in the input.
ItemsAfter == {<<>>, <<VInt(0)>>, <<TNil, VBool(TRUE)>>}

\* C18: the emitted _unpack of a non-nullable enum reads exactly one integer
\* and returns the variant whose discriminant it is: for every k, on the
\* discriminant of the k-th variant it consumes that one item and returns
\* the k-th variant.
C18_EnumUnpackReadsOneItem ==
    out_dart # Idle =>
        \A c \in EmittedEnums : \A k \in 1..Len(c.variants) : \A rest \in ItemsAfter :
            enum_unpack(c, 1, <<VInt(c.variants[k].value)>> \o rest)
                = Read(VEnum(c.name, k), rest)

\* What the emitted _unpack does: it reads one item for each variant it
\* compares, so only the first variant is returned from one item, and the
\* k-th from the k-th of k items.
EnumUnpackReadsOnePerVariant ==
    out_dart # Idle =>
        \A c \in EmittedEnums : \A rest \in ItemsAfter :
            /\ enum_unpack(c, 1, <<VInt(c.variants[1].value)>> \o rest)
                   = Read(VEnum(c.name, 1), rest)
            /\ \A k \in 2..Len(c.variants) :
                  /\ enum_unpack(c, 1, <<VInt(c.variants[k].value)>>) = Thrown
                  /\ enum_unpack(c, 1, [j \in 1..k |-> VInt(c.variants[k].value)] \o rest)
                         = Read(VEnum(c.name, k), rest)

\* The array header among the items written: the first item, or the second
\* after the presence marker of a nullable array.
ArrayHeader == stream[IF ft.nullable THEN 2 ELSE 1]

\* C27: for a field declared as an array of fixed length N, the emitted
\* pack writes exactly N elements and the emitted unpack yields exactly N
\* elements.
C27_FixedLengthKept ==
    /\ (Packed /\ FieldValue # VNull) => ArrayHeader = TArray(ft.length)
    /\ (Unpacked /\ unpacked.ok /\ unpacked.val.v[1] # VNull)
          => Len(unpacked.val.v[1].v) = ft.length

\* What the emitted code does: it writes the list's own length and as many
\* elements, and reads back as many as the header says, whatever length was
\* declared.
ArrayLengthAsHeld ==
    /\ (Packed /\ FieldValue # VNull) => ArrayHeader = TArray(Len(FieldValue.v))
    /\ Unpacked => RoundTrip

(***************************************************************************)
(* Claims about field order on the wire (SpecFields).                      *)
(***************************************************************************)
HolderDecl == Decls[Len(Decls)]
HolderClass == out_dart.items[Len(out_dart.items)]

\* The items written for the fields i.. of the holder object, each field's
\* group being what a holder with that field alone writes.
RECURSIVE GroupsFrom(_)
GroupsFrom(i) ==
    IF i > Len(HolderDecl.members) THEN <<>>
    ELSE LET all == FieldItems(HolderDecl.members[i].x, value.v[i])
         IN all \o GroupsFrom(i + 1)

\* The emitted holder class packs and reads its fields in declaration order.
EmittedInDeclarationOrder ==
    (DartDone /\ out_dart # Panic) =>
        /\ Len(HolderClass.pack) = Len(HolderDecl.members)
        /\ Len(HolderClass.unpack) = Len(HolderDecl.members)
        /\ \A j \in 1..Len(HolderDecl.members) :
              /\ HolderClass.pack[j][1].expr.var
                    = to_lower_camel_case(HolderDecl.members[j].name)
              /\ HolderClass.unpack[j].name
                    = to_lower_camel_case(HolderDecl.members[j].name)
              /\ HolderClass.unpack[j].expr =
                    generate_unpack_expr(HolderDecl.members[j].x, {WireEnumIdent})

\* C11: the pack statements and the unpack reads of a struct are emitted in
\* declaration order, so the items written are the fields' groups in that
\* order and the i-th read, started at the i-th group, consumes exactly that
\* group and yields the i-th field.
C11_FieldOrderIsWireOrder ==
    /\ EmittedInDeclarationOrder
    /\ Packed => stream = GroupsFrom(1)
    /\ Unpacked =>
          /\ unpacked = Read(value, <<>>)
          /\ \A i \in 1..Len(HolderDecl.members) :
                eval_unpack(HolderClass.unpack[i].expr, GroupsFrom(i), out_dart.items)
                    = Read(value.v[i], GroupsFrom(i + 1))

HasEnumField ==
    \E j \in 1..Len(HolderDecl.members) :
        HolderDecl.members[j].x = UserDefined(WireEnumIdent, FALSE)

\* Outside the non-nullable enum read, the order holds on the wire.
FieldOrderOutsideEnumUnpack ==
    /\ EmittedInDeclarationOrder
    /\ Packed => stream = GroupsFrom(1)
    /\ (Unpacked /\ ~HasEnumField) =>
          /\ unpacked = Read(value, <<>>)
          /\ \A i \in 1..Len(HolderDecl.members) :
                eval_unpack(HolderClass.unpack[i].expr, GroupsFrom(i), out_dart.items)
                    = Read(value.v[i], GroupsFrom(i + 1))

(***************************************************************************)
(* Claims about nullability per constructor level (SpecWire).              *)
(***************************************************************************)
\* The statements and the read expression emitted for a holder's field.
FieldPack == HolderClass.pack[1]
FieldUnpack == HolderClass.unpack[1].expr

\* Emitted code that handles null: a null test around the statements, a read
\* that lets null through.
PackHandlesNull(stmts) == Len(stmts) = 1 /\ stmts[1].op = "ifNotNull"
UnpackHandlesNull(e) ==
    \/ e.op = "ifPresent"
    \/ e.op = "unpack" /\ ~e.bang
    \/ e.op = "callUnpack" /\ e.nullable

\* The statements looped over the elements, and the read of one element.
ElementPack(stmts) ==
    LET present == IF PackHandlesNull(stmts) THEN stmts[1].then ELSE stmts
    IN present[Len(present)].body
ElementUnpack(e) == IF e.op = "ifPresent" THEN e.base.inner ELSE e.inner

\* The holder class emitted for a field of type t.
HolderClassOf(t) == dart_generate(WireSchema(t), FALSE).items[3]
\* The same array type with the nullable flag moved to the other level.
Swapped(t) == Array([t.inner EXCEPT !.nullable = t.nullable], t.length, t.inner.nullable)

\* C12: for an array field the emitted pack and unpack logic handles null
\* (null marker or presence marker) at the array level exactly when the
\* array is nullable, and at the element level exactly when the element type
\* is nullable; a nullable array of non-nullable T and a non-nullable array
\* of nullable T get different pack and different unpack logic.
C12_NullabilityPerLevel ==
    (DartDone /\ out_dart # Panic /\ ft # Idle /\ ft.tag = "Array") =>
        /\ PackHandlesNull(FieldPack) <=> ft.nullable
        /\ ft.nullable =>
              /\ FieldPack[1].then[1] = SPackBoolTrue
              /\ FieldPack[1].then[2].op = "packListLength"
              /\ FieldPack[1].else = <<SPackNull>>
        /\ ~ft.nullable => FieldPack[1].op = "packListLength"
        /\ PackHandlesNull(ElementPack(FieldPack)) <=> ft.inner.nullable
        /\ UnpackHandlesNull(FieldUnpack) <=> ft.nullable
        /\ UnpackHandlesNull(ElementUnpack(FieldUnpack)) <=> ft.inner.nullable
        /\ ft.nullable # ft.inner.nullable =>
              /\ HolderClassOf(Swapped(ft)).pack # HolderClass.pack
              /\ HolderClassOf(Swapped(ft)).unpack # HolderClass.unpack

\* The code for a nullable array of non-nullable strings has been emitted.
C12_Witness ==
    /\ DartDone /\ out_dart # Panic
    /\ ft = Array(Builtin(BtString, FALSE), NoLength, TRUE)
    /\ FieldUnpack = EIfPresent(EListGenerate(EUnpack("unpackString", TRUE)))

(***************************************************************************)
(* Claims about the driver and the intermediate encoding (SpecDriver).     *)
(***************************************************************************)
DriverDone == pc = "done"
BuiltOk == result = Ok
MetaCount == Cardinality(DOMAIN schema.metadata)

\* C13: the driver writes the same bytes for the same Schema value every
\* time it encodes it, in this run or in another run on the same input,
\* also when the metadata mapping holds two or more entries.
C13_EncodingDeterministic ==
    [][(ast_file # Idle /\ ast_file' # Idle) => ast_file' = ast_file]_vars

\* With at most one metadata entry every run writes the same bytes.
EncodingDeterministicUpToOneEntry ==
    [][(ast_file # Idle /\ ast_file' # Idle /\ MetaCount <= 1) => ast_file' = ast_file]_vars

\* C14: the text a backend prints, and the driver writes, is the backend's
\* generate applied to the declarations alone: runs on Schemas with equal
\* declarations give the same text whatever the metadata holds and whatever
\* order the process's hash-based collections iterate in.
C14_GenerationDeterministic ==
    DriverDone =>
        LET bare == Schema(<<>>, Decls)
        IN /\ out_rust # Idle =>
                 /\ out_rust = serde_generate(bare)
                 /\ output = Written(cli.output_path, out_rust)
           /\ out_dart # Idle =>
                 /\ \E overflow_checks \in BOOLEAN :
                       out_dart = dart_generate(bare, overflow_checks)
                 /\ output = Written(cli.output_path, out_dart)

\* The structural backend has printed its text for a schema with two
\* declarations and two metadata entries.
C14_Witness ==
    /\ DriverDone /\ out_rust # Idle /\ output # Idle
    /\ MetaCount = 2 /\ hash_order = <<"name", "version">>
    /\ Len(Decls) = 2

\* C16: with an AST path the driver, once the schema is built and valid,
\* writes the encoded Schema to the path and exits with status 0; it invokes
\* no backend and writes no generated output, with or without a format; the
\* bytes written decode to the Schema built.  When the build fails nothing
\* is written.
C16_AstPath ==
    (DriverDone /\ cli.ast_path) =>
        /\ backend = Idle /\ output = Idle /\ out_dart = Idle /\ out_rust = Idle
        /\ BuiltOk =>
              /\ exit_code = 0 /\ stderr = Idle
              /\ ast_file = File(encode(schema, hash_order))
              /\ decode(ast_file.bytes) = Read(schema, <<>>)
        /\ ~BuiltOk => ast_file = Idle /\ exit_code = 1

\* The AST file has been written for a schema with two declarations and two
\* metadata entries although a format was given.
C16_Witness ==
    /\ DriverDone /\ cli.ast_path /\ cli.format = "dart-mp" /\ BuiltOk
    /\ MetaCount = 2 /\ Len(Decls) = 2
    /\ ast_file # Idle /\ exit_code = 0

\* C17: when the schema builds and neither an AST path nor a format is
\* given, the driver fails with 'No output format specified' and a non-zero
\* status; it invokes no backend and writes nothing.
C17_NoFormat ==
    (DriverDone /\ BuiltOk /\ ~cli.ast_path /\ cli.format = "none") =>
        /\ exit_code # 0 /\ exit_code # Running
        /\ stderr = ErrorMessage("No output format specified")
        /\ backend = Idle /\ output = Idle /\ ast_file = Idle
        /\ out_dart = Idle /\ out_rust = Idle

\* The driver has failed for want of a format on a valid schema.
C17_Witness ==
    /\ DriverDone /\ BuiltOk /\ ~cli.ast_path /\ cli.format = "none"
    /\ Len(Decls) >= 1 /\ exit_code = 1

\* The backend was started and printed no text: it failed.
BackendFailed == backend # Idle /\ out_dart = Idle /\ out_rust = Idle

\* C23: a backend is invoked only when build (read, parse, build, validate)
\* has succeeded, and generated output is written only when the backend has
\* succeeded as well; when build or the backend fails the driver exits with
\* a non-zero status and has written neither generated output nor an AST
\* file.
C23_FailFast ==
    /\ ~DriverDone => backend = Idle /\ output = Idle
    /\ DriverDone =>
          /\ backend # Idle => BuiltOk
          /\ output # Idle =>
                /\ BuiltOk /\ backend # Idle /\ ~BackendFailed
                /\ output.text \in {out_dart, out_rust} \ {Idle}
          /\ (~BuiltOk \/ BackendFailed) =>
                /\ exit_code = 1
                /\ output = Idle /\ ast_file = Idle

\* The input file is missing and a format is given: exit status 1, no
\* backend, no output.
C23_Witness ==
    /\ DriverDone /\ result = IoError /\ cli.format = "rust-serde"
    /\ exit_code = 1 /\ backend = Idle /\ output = Idle /\ ast_file = Idle

\* The last entry of the meta block that has the key k.
LastEntry(k) ==
    meta_block[CHOOSE i \in 1..Len(meta_block) :
                  /\ meta_block[i].key = k
                  /\ \A j \in (i + 1)..Len(meta_block) : meta_block[j].key # k]

RepeatsKey ==
    \E i, j \in 1..Len(meta_block) : i # j /\ meta_block[i].key = meta_block[j].key

\* C28: the metadata mapping built from a meta block has exactly one entry
\* for each distinct key of the block, holding the value of the key's last
\* occurrence, also when a key is repeated; a repeated key does not make
\* build fail, and validate gives what it gives for the declarations alone.
C28_MetaLastWins ==
    /\ DOMAIN schema.metadata = {meta_block[i].key : i \in 1..Len(meta_block)}
    /\ \A k \in DOMAIN schema.metadata : schema.metadata[k] = LastEntry(k).value
    /\ (pc # "building" /\ result.tag \notin {"Io", "Parse", "NumberFormat"})
          => /\ result = validate(Schema(<<>>, Decls))
             /\ Decls = <<>> => result = Ok

\* The block `version = 1, version = "s"` has built: one entry, the second
\* value, and a valid schema.
C28_Witness ==
    /\ pc = "validated" /\ result = Ok
    /\ meta_block = <<MetaEntry("version", MetaInteger(IntegerValue("I64", 1))),
                      MetaEntry("version", MetaString("s"))>>
    /\ RepeatsKey
    /\ DOMAIN schema.metadata = {"version"}
    /\ schema.metadata["version"] = MetaString("s")

(***************************************************************************)
(* Claims about integer literal errors (SpecLiteral).                      *)
(***************************************************************************)
BuildHasFailed == pc = "failed"

\* The radix a literal's prefix implies, and the digits after the prefix.
ImpliedRadix(s) ==
    IF starts_with(s, <<"0", "x">>) THEN 16
    ELSE IF starts_with(s, <<"0", "b">>) THEN 2 ELSE 10

Negative(s) == ImpliedRadix(s) = 10 /\ s # <<>> /\ s[1] = "-"

DigitsOf(s) ==
    IF ImpliedRadix(s) # 10 THEN SubSeq(s, 3, Len(s))
    ELSE IF Negative(s) THEN Tail(s) ELSE s

DigitsOfRadix(radix) ==
    {HexChars[i] : i \in 1..radix} \cup {UpperChars[i - 10] : i \in 11..radix}

WellFormed(s) ==
    /\ DigitsOf(s) # <<>>
    /\ \A i \in 1..Len(DigitsOf(s)) : DigitsOf(s)[i] \in DigitsOfRadix(ImpliedRadix(s))

\* The number a well-formed digit sequence denotes.
RECURSIVE Denoted(_, _)
Denoted(digits, radix) ==
    IF digits = <<>> THEN 0
    ELSE Denoted(SubSeq(digits, 1, Len(digits) - 1), radix) * radix
         + to_digit(digits[Len(digits)], radix)

\* The literal failed as a variant's value (the struct has no field yet and
\* the text is a literal text) or as an array length.
FailedAsLength == BuildHasFailed /\ literal \in LengthTexts /\ result.b[1] = "2"
FailedAsLiteral == BuildHasFailed /\ ~FailedAsLength

\* The number a well-formed literal denotes.
ValueOf(s) ==
    IF Negative(s) THEN 0 - Denoted(DigitsOf(s), 10)
    ELSE Denoted(DigitsOf(s), ImpliedRadix(s))

OutOfRange(s) ==
    /\ WellFormed(s)
    /\ IF FailedAsLiteral /\ ImpliedRadix(s) = 10
       THEN ValueOf(s) > I64Max \/ ValueOf(s) < I64Min
       ELSE ValueOf(s) > U64Max \/ ValueOf(s) < 0

FailedAt ==
    IF FailedAsLength THEN Location(2, Len(Decls[2].members) + 1)
    ELSE Location(1, Len(Decls[1].members) + 1)

\* C15: a literal whose digits are malformed for its radix fails with
\* NumberFormat, and a well-formed literal or array length that is out of
\* range fails with NumberRange; the error carries the literal's text and
\* its location.
C15_LiteralErrorsByCause ==
    BuildHasFailed =>
        /\ result.a = literal /\ result.b = FailedAt
        /\ ~WellFormed(literal) => result.tag = "NumberFormat"
        /\ OutOfRange(literal) => result.tag = "NumberRange"

\* What the builder does: every failure of a literal is a NumberFormat and
\* every failure of an array length a NumberRange, and only texts that are
\* out of range fail.
LiteralErrorsAsBuilt ==
    BuildHasFailed =>
        /\ result.a = literal /\ result.b = FailedAt
        /\ OutOfRange(literal)
        /\ FailedAsLiteral => result.tag = "NumberFormat"
        /\ FailedAsLength => result.tag = "NumberRange"

\* Every text in range builds: no variant or field holds a number other
\* than the one its text denotes.
LiteralsInRangeBuild ==
    (pc = "building" /\ literal # <<>>) =>
        /\ WellFormed(literal)
        /\ \/ /\ Decls[2].members = <<>>
              /\ Decls[1].members[Len(Decls[1].members)].x.n = ValueOf(literal)
           \/ /\ Decls[2].members # <<>>
              /\ Decls[2].members[Len(Decls[2].members)].x.length = ValueOf(literal)

(***************************************************************************)
(* Claims about the casing functions (SpecIdent).                          *)
(***************************************************************************)
TypeIdent == Decls[1].ident
FieldName == Decls[1].members[1].name

is_lowercase(c) == \E i \in 1..Len(LowerChars) : LowerChars[i] = c

\* The snake casing of spec section 4.4 read character by character: every
\* character is lower-cased, and an underscore is put in front of an
\* upper-case character exactly when the character before it is lower-case.
RECURSIVE SnakeFrom(_, _)
SnakeFrom(s, i) ==
    IF i > Len(s) THEN <<>>
    ELSE (IF i > 1 /\ is_uppercase(s[i]) /\ is_lowercase(s[i - 1]) THEN <<"_">> ELSE <<>>)
         \o <<to_lowercase(s[i])>> \o SnakeFrom(s, i + 1)

\* The longest run of underscores in s.
RECURSIVE UnderscoreRun(_, _)
UnderscoreRun(s, i) ==
    IF i > Len(s) \/ s[i] # "_" THEN 0 ELSE 1 + UnderscoreRun(s, i + 1)

LongestRun(s) ==
    IF s = <<>> THEN 0
    ELSE CHOOSE n \in 0..Len(s) :
            /\ \E i \in 1..Len(s) : UnderscoreRun(s, i) = n
            /\ \A i \in 1..Len(s) : UnderscoreRun(s, i) <= n

SnakeName == out_rust.items[1].fields[1].name

\* C21: the structural backend's field name is the declared name split on
\* case transitions and underscores, joined with a single underscore and
\* lower-cased: it has no upper-case letter, gains an underscore only at a
\* lower-to-upper transition, and has no underscore run longer than the
\* declared name's (or than the single underscore such a transition gains).
C21_SnakeCase ==
    RustDone =>
        /\ \A i \in 1..Len(SnakeName) : ~is_uppercase(SnakeName[i])
        /\ SnakeName = SnakeFrom(FieldName, 1)
        /\ LongestRun(SnakeName) <= IF LongestRun(FieldName) = 0 THEN 1
                                    ELSE LongestRun(FieldName)

\* What to_snake_case does: it lower-cases every character and puts an
\* underscore in front of every upper-case character but the first of the
\* name, whatever stands before it.
RECURSIVE SnakeEveryUpper(_)
SnakeEveryUpper(s) ==
    IF s = <<>> THEN <<>>
    ELSE SnakeEveryUpper(SubSeq(s, 1, Len(s) - 1))
         \o (IF Len(s) > 1 /\ is_uppercase(s[Len(s)]) THEN <<"_">> ELSE <<>>)
         \o <<to_lowercase(s[Len(s)])>>

SnakeAsEmitted ==
    RustDone =>
        /\ \A i \in 1..Len(SnakeName) : ~is_uppercase(SnakeName[i])
        /\ SnakeName = SnakeEveryUpper(FieldName)
        /\ (\A i \in 2..Len(FieldName) :
               is_uppercase(FieldName[i]) => is_lowercase(FieldName[i - 1]))
              => SnakeName = SnakeFrom(FieldName, 1)

PascalName == out_dart.items[1].name
SerdePascalName == out_rust.items[1].name
LowerCamelName == out_dart.items[1].fields[1].name

HasUnderscore(s) == \E i \in 1..Len(s) : s[i] = "_"

\* C22: to_pascal_case is the upper-camel transform (segments between
\* underscores concatenated, each with its first character upper-cased and
\* the rest unchanged) and to_lower_camel_case the lower-camel transform
\* (the same, the first segment's first character lower-cased).  Hence a
\* name without underscores that starts lower-case is unchanged by lower
\* camel, the upper camel of a name is the upper camel of its lower-camel
\* form, and the two backends' to_pascal_case agree.
C22_CamelCase ==
    BothDone =>
        /\ PascalName = UpperCamel(TypeIdent)
        /\ to_pascal_case(FieldName) = UpperCamel(FieldName)
        /\ LowerCamelName = LowerCamel(FieldName)
        /\ to_lower_camel_case(TypeIdent) = LowerCamel(TypeIdent)
        /\ (~HasUnderscore(FieldName) /\ is_lowercase(FieldName[1]))
              => LowerCamelName = FieldName
        /\ to_pascal_case(LowerCamelName) = to_pascal_case(FieldName)
        /\ to_pascal_case(to_lower_camel_case(TypeIdent)) = PascalName
        /\ SerdePascalName = PascalName
        /\ serde_to_pascal_case(FieldName) = to_pascal_case(FieldName)

\* A type a_B and a field B_a: AB in both backends, and bA.
C22_Witness ==
    /\ BothDone
    /\ TypeIdent = <<"a", "_", "B">> /\ FieldName = <<"B", "_">>
    /\ PascalName = <<"A", "B">> /\ SerdePascalName = <<"A", "B">>
    /\ LowerCamelName = <<"b">>
    /\ to_lower_camel_case(TypeIdent) = <<"a", "B">>

(***************************************************************************)
(* Claims about enum values and base types (SpecLiteral).                  *)
(***************************************************************************)
\* The width of an integer type in a model whose 64-bit types are WordBits
\* wide: each narrower type is two bits narrower than the next, so that the
\* small literals of the model fit the 32-bit types as they do in the code.
BitsOf(it) ==
    CASE it \in {"I8", "U8"} -> WordBits - 6
      [] it \in {"I16", "U16"} -> WordBits - 4
      [] it \in {"I32", "U32"} -> WordBits - 2
      [] it \in {"I64", "U64"} -> WordBits

Signed(it) == it \in {"I8", "I16", "I32", "I64"}

Representable(n, it) ==
    IF Signed(it) THEN 0 - Pow2(BitsOf(it) - 1) <= n /\ n < Pow2(BitsOf(it) - 1)
    ELSE 0 <= n /\ n < Pow2(BitsOf(it))

\* C26: in a Schema that build returned, every explicit variant value of an
\* enum is representable in the enum's base type: it is not negative under
\* an unsigned base type and not outside the base type's width.
C26_ValuesFitBaseType ==
    (Validated /\ result = Ok) =>
        \A i \in 1..Len(Decls[1].members) :
            Decls[1].members[i].x # NoValue
               => Representable(Decls[1].members[i].x.n, Decls[1].base_type)

\* What build does: a decimal value is any signed 64-bit number and a hex or
\* binary value any unsigned 64-bit number, whatever the base type.
ValuesFitLiteralKind ==
    (Validated /\ result = Ok) =>
        \A i \in 1..Len(Decls[1].members) :
            LET x == Decls[1].members[i].x
            IN x # NoValue => Representable(x.n, x.kind)

====
